---- MODULE Spec2Model ----
(***************************************************************************)
(* A model of the metric-query system: the transformation engine (pure     *)
(* operators over metric collections), the query service and its in-memory *)
(* store, and the dashboard views (Playground, Performance).               *)
(*                                                                         *)
(* The engine and the service are not part of the sources at hand (only    *)
(* their documentation and their callers are); their operators follow the  *)
(* documented contracts.  The dashboard views follow the TypeScript code,  *)
(* one action per run-to-completion turn of the browser's event loop.      *)
(***************************************************************************)
EXTENDS Integers, Sequences, FiniteSets, TLC

VARIABLES
  \* transformation engine: an input collection, the operation applied, its result
  collection, opn, output,
  \* query service: the two stores, the request handlers in progress, the responses
  metrics, labeled_metrics, handlers, acks, lastReq, lastResp,
  \* Performance view (React state, then the locals of runBenchmarks)
  benchmarkResults, isRunning, progress, perfError,
  results, completedBenchmarks, opIdx, sizeIdx, inflight, issued, runs,
  \* Playground view, then its TransformationControls
  originalMetrics, transformedMetrics, isLoading, error, executionTime,
  mounted, pending, clicks,
  pipeline, currentOperation, alertMessage,
  \* Overview view
  apiInfo, homeIsLoading, homeMounted, homePending,
  \* MetricChart: the chart data of the last render
  chartData,
  \* release automation: the script invoked and its skipPush, the command it
  \* is about to run, the commands run with their exit statuses, the
  \* script's $releaseExists and exit status, the release in the cluster
  script, skipPush, nextCommand, ran, releaseExists, exitCode, release, deployRuns,
  \* compose topology: per service, the container's health status, its
  \* failing streak, whether its start period is still running and how
  \* often it was restarted
  health, streak, inStartPeriod, restartCount,
  \* dashboard routing: the rewrites written by the last build, the running
  \* Next.js server (its mode and process.env) and the last request with
  \* the address it was rewritten to
  routesManifest, server, rewritten

engineVars == <<collection, opn, output>>
serverVars == <<metrics, labeled_metrics, handlers, acks, lastReq, lastResp>>
perfVars == <<benchmarkResults, isRunning, progress, perfError,
              results, completedBenchmarks, opIdx, sizeIdx, inflight, issued, runs>>
pageVars == <<originalMetrics, transformedMetrics, isLoading, error, executionTime,
              mounted, pending, clicks>>
controlsVars == <<pipeline, currentOperation, alertMessage>>
playVars == <<pageVars, controlsVars>>
homeVars == <<apiInfo, homeIsLoading, homeMounted, homePending>>
chartVars == <<chartData>>
deployVars == <<script, skipPush, nextCommand, ran, releaseExists, exitCode, release, deployRuns>>
composeVars == <<health, streak, inStartPeriod, restartCount>>
routeVars == <<routesManifest, server, rewritten>>
vars == <<engineVars, serverVars, perfVars, playVars, homeVars, chartVars, deployVars,
          composeVars, routeVars>>

\* JavaScript's null, for the string-valued React state
Null == "null"

\* ------------------------------------------------------------------------
\* Bounds of the model
\* ------------------------------------------------------------------------

\* longest input collection handed to an engine operator
MaxLen == 3
\* ingestion requests the service receives in one behaviour
MaxPosts == 3
\* longest transformation list or fluent pipeline of one request
MaxOps == 2
\* benchmark runs started in one page session
MaxRuns == 2
\* clicks on the Playground's request buttons in one page session
MaxClicks == 2

\* ------------------------------------------------------------------------
\* Numbers.  Metric values are integers on the wire; an average is an
\* arithmetic mean, so values are kept as reduced fractions n/d with d > 0.
\* ------------------------------------------------------------------------

Abs(i) == IF i < 0 THEN -i ELSE i

RECURSIVE Gcd(_, _)
Gcd(a, b) == IF b = 0 THEN a ELSE Gcd(b, a % b)

Rat(n, d) ==
  LET g == Gcd(Abs(n), d)
  IN [n |-> n \div g, d |-> d \div g]

Num(i) == [n |-> i, d |-> 1]

RatLT(a, b) == a.n * b.d < b.n * a.d
RatLE(a, b) == a.n * b.d <= b.n * a.d
RatAdd(a, b) == Rat(a.n * b.d + b.n * a.d, a.d * b.d)

\* ------------------------------------------------------------------------
\* Engine results: a value, or an InvalidInput failure with its message
\* ------------------------------------------------------------------------

Ok(x) == [ok |-> TRUE, data |-> x]
InvalidInput(msg) == [ok |-> FALSE, error |-> msg]

\* ------------------------------------------------------------------------
\* Filter
\* ------------------------------------------------------------------------

NumericFilterTypes == {"gt", "lt", "ge", "gte", "le", "lte", "eq"}
LabelFilterTypes == {"label_eq", "label_in"}
FilterTypes == NumericFilterTypes \cup LabelFilterTypes

HasLabel(r) == "label" \in DOMAIN r

\* A mutant of Compare: ge/gte read as strictly greater.
CompareStrictGe(type, v, threshold) ==
  CASE type = "gt" -> RatLT(threshold, v)
    [] type = "lt" -> RatLT(v, threshold)
    [] type \in {"ge", "gte"} -> RatLT(threshold, v)
    [] type \in {"le", "lte"} -> RatLE(v, threshold)
    [] type = "eq" -> v = threshold

\* the named comparator of a numeric predicate, record.value against the threshold
Compare(type, v, threshold) ==
  CASE type = "gt" -> RatLT(threshold, v)
    [] type = "lt" -> RatLT(v, threshold)
    [] type \in {"ge", "gte"} -> RatLE(threshold, v)
    [] type \in {"le", "lte"} -> RatLE(v, threshold)
    [] type = "eq" -> v = threshold

\* A mutant of LabelMatches: labels compared without regard to case.
Lower(l) == CASE l = "CPU" -> "cpu" [] l = "MEMORY" -> "memory" [] OTHER -> l

LabelMatchesIgnoringCase(p, r) ==
  /\ HasLabel(r)
  /\ CASE p.type = "label_eq" -> Lower(r.label) = Lower(p.label)
       [] p.type = "label_in" -> Lower(r.label) \in {Lower(l) : l \in p.labels}

\* a label predicate against record.label; a record lacking a label never matches
LabelMatches(p, r) ==
  /\ HasLabel(r)
  /\ CASE p.type = "label_eq" -> r.label = p.label
       [] p.type = "label_in" -> r.label \in p.labels

Matches(p, r) ==
  IF p.type \in LabelFilterTypes
    THEN LabelMatches(p, r)
    ELSE Compare(p.type, r.value, Num(p.value))

RECURSIVE Keep(_, _)
Keep(p, coll) ==
  IF coll = <<>> THEN <<>>
  ELSE IF Matches(p, Head(coll))
    THEN <<Head(coll)>> \o Keep(p, Tail(coll))
    ELSE Keep(p, Tail(coll))

\* Filter: the sub-collection satisfying the predicate, in the original order
Filter(coll, p) ==
  IF p.type \notin FilterTypes
    THEN InvalidInput("Unknown filter type")
    ELSE Ok(Keep(p, coll))

filter_by_label(coll, label) == Filter(coll, [type |-> "label_eq", label |-> label])
filter_by_labels(coll, labels) == Filter(coll, [type |-> "label_in", labels |-> labels])

\* ------------------------------------------------------------------------
\* Aggregate
\* ------------------------------------------------------------------------

AggregationKinds == {"sum", "avg", "min", "max", "count"}

RECURSIVE SumValues(_)
SumValues(vs) == IF vs = <<>> THEN Num(0) ELSE RatAdd(Head(vs), SumValues(Tail(vs)))

RECURSIVE MinValue(_)
MinValue(vs) ==
  IF Len(vs) = 1 THEN Head(vs)
  ELSE LET m == MinValue(Tail(vs))
       IN IF RatLE(Head(vs), m) THEN Head(vs) ELSE m

RECURSIVE MaxValue(_)
MaxValue(vs) ==
  IF Len(vs) = 1 THEN Head(vs)
  ELSE LET m == MaxValue(Tail(vs))
       IN IF RatLE(m, Head(vs)) THEN Head(vs) ELSE m

ValuesOf(coll) == [i \in 1..Len(coll) |-> coll[i].value]

\* Aggregate: a collection's values reduced to one number; an aggregation
\* requested over zero records is InvalidInput, as is an unknown kind
Aggregate(vs, kind) ==
  IF kind \notin AggregationKinds THEN InvalidInput("Unknown aggregation")
  ELSE IF vs = <<>> THEN InvalidInput("Cannot aggregate an empty collection")
  ELSE CASE kind = "sum" -> Ok(SumValues(vs))
         [] kind = "avg" -> LET s == SumValues(vs) IN Ok(Rat(s.n, s.d * Len(vs)))
         [] kind = "min" -> Ok(MinValue(vs))
         [] kind = "max" -> Ok(MaxValue(vs))
         [] kind = "count" -> Ok(Num(Len(vs)))

\* ------------------------------------------------------------------------
\* Time-group
\* ------------------------------------------------------------------------

TimeUnits == {"minute", "hour", "day"}

BucketSize(unit) ==
  CASE unit = "minute" -> 60
    [] unit = "hour" -> 3600
    [] unit = "day" -> 86400

\* A mutant of bucket_start: the timestamp rounded to the nearest boundary.
bucket_start_rounded(timestamp, size) == ((timestamp + size \div 2) \div size) * size

\* bucket_start = floor(timestamp / bucket_size) * bucket_size
bucket_start(timestamp, size) == (timestamp \div size) * size

RECURSIVE Ascending(_)
Ascending(S) ==
  IF S = {} THEN <<>>
  ELSE LET m == CHOOSE x \in S : \A y \in S : x <= y
       IN <<m>> \o Ascending(S \ {m})

RECURSIVE InBucket(_, _, _)
InBucket(coll, size, b) ==
  IF coll = <<>> THEN <<>>
  ELSE IF bucket_start(Head(coll).timestamp, size) = b
    THEN <<Head(coll).value>> \o InBucket(Tail(coll), size, b)
    ELSE InBucket(Tail(coll), size, b)

\* Time-group: one record {value: aggregate, timestamp: bucket_start} per
\* non-empty bucket, by ascending bucket start
TimeGroup(coll, unit, kind) ==
  IF unit \notin TimeUnits THEN InvalidInput("Unknown time grouping")
  ELSE IF kind \notin AggregationKinds THEN InvalidInput("Unknown aggregation")
  ELSE LET size == BucketSize(unit)
           starts == Ascending({bucket_start(coll[i].timestamp, size) : i \in 1..Len(coll)})
       IN Ok([k \in 1..Len(starts) |->
               [value |-> Aggregate(InBucket(coll, size, starts[k]), kind).data,
                timestamp |-> starts[k]]])

\* ------------------------------------------------------------------------
\* Moving average and rate of change over a metric {values, timestamps}
\* ------------------------------------------------------------------------

Window(vs, i, w) == [k \in 1..w |-> vs[i + k - 1]]

\* max(0, N - W + 1) samples, each the mean of W consecutive values, stamped
\* with the timestamp of the last sample of its window; W <= 0 is InvalidInput
moving_average(metric, window_size) ==
  IF window_size <= 0 THEN InvalidInput("window_size must be positive")
  ELSE LET n == Len(metric.values)
           m == IF n - window_size + 1 > 0 THEN n - window_size + 1 ELSE 0
       IN Ok([values |->
                [i \in 1..m |->
                   Aggregate(Window(metric.values, i, window_size), "avg").data],
              timestamps |-> [i \in 1..m |-> metric.timestamps[i + window_size - 1]]])

\* N - 1 samples (value[i+1] - value[i]) / (timestamp[i+1] - timestamp[i]);
\* two equal consecutive timestamps are InvalidInput
rate(metric) ==
  LET n == Len(metric.values)
      dt(i) == metric.timestamps[i + 1] - metric.timestamps[i]
      dv(i) == RatAdd(metric.values[i + 1],
                      [n |-> -metric.values[i].n, d |-> metric.values[i].d])
  IN IF \E i \in 1..(n - 1) : dt(i) = 0
       THEN InvalidInput("equal consecutive timestamps")
       ELSE Ok([values |->
                  [i \in 1..(n - 1) |->
                     IF dt(i) > 0 THEN Rat(dv(i).n, dv(i).d * dt(i))
                                  ELSE Rat(-dv(i).n, dv(i).d * (-dt(i)))],
                timestamps |-> [i \in 1..(n - 1) |-> metric.timestamps[i + 1]]])

\* ------------------------------------------------------------------------
\* Pipelines: operations applied strictly in array order, each consuming the
\* output of the previous one; the first failure is the pipeline's result
\* ------------------------------------------------------------------------

Has(obj, field) == field \in DOMAIN obj

MissingField == InvalidInput("Missing required field")

\* A mutant of Collapse: zero records collapse to the sentinel zero.
CollapseZeroOnEmpty(coll, kind) ==
  IF coll = <<>> /\ kind \in AggregationKinds
    THEN Ok(<<[value |-> Num(0), timestamp |-> 0]>>)
    ELSE LET a == Aggregate(ValuesOf(coll), kind)
         IN IF a.ok
              THEN Ok(<<[value |-> a.data, timestamp |-> coll[Len(coll)].timestamp]>>)
              ELSE a

\* an aggregation without a time grouping collapses the collection to one
\* record, stamped with the timestamp of the last input record
Collapse(coll, kind) ==
  LET a == Aggregate(ValuesOf(coll), kind)
  IN IF a.ok
       THEN Ok(<<[value |-> a.data, timestamp |-> coll[Len(coll)].timestamp]>>)
       ELSE a

\* one Fluent Pipeline Operation
ExecOperation(coll, op) ==
  CASE op.operation = "filter" ->
         IF Has(op, "type") /\ Has(op, "value")
           THEN Filter(coll, [type |-> op.type, value |-> op.value])
           ELSE MissingField
    [] op.operation = "greater_than" ->
         IF Has(op, "value") THEN Filter(coll, [type |-> "gt", value |-> op.value])
                             ELSE MissingField
    [] op.operation = "less_than" ->
         IF Has(op, "value") THEN Filter(coll, [type |-> "lt", value |-> op.value])
                             ELSE MissingField
    [] op.operation = "equal_to" ->
         IF Has(op, "value") THEN Filter(coll, [type |-> "eq", value |-> op.value])
                             ELSE MissingField
    [] op.operation = "aggregate" ->
         IF Has(op, "type") THEN Collapse(coll, op.type) ELSE MissingField
    [] op.operation = "sum" -> Collapse(coll, "sum")
    [] op.operation = "average" -> Collapse(coll, "avg")
    [] op.operation = "group_by" ->
         IF Has(op, "time_grouping") /\ Has(op, "aggregation")
           THEN TimeGroup(coll, op.time_grouping, op.aggregation)
           ELSE MissingField
    [] op.operation = "group_by_minute" ->
         TimeGroup(coll, "minute", IF Has(op, "aggregation") THEN op.aggregation ELSE "sum")
    [] op.operation = "group_by_hour" ->
         TimeGroup(coll, "hour", IF Has(op, "aggregation") THEN op.aggregation ELSE "sum")
    [] op.operation = "group_by_day" ->
         TimeGroup(coll, "day", IF Has(op, "aggregation") THEN op.aggregation ELSE "sum")
    [] op.operation = "filter_by_label" ->
         IF Has(op, "label") THEN filter_by_label(coll, op.label) ELSE MissingField
    [] op.operation = "filter_by_labels" ->
         IF Has(op, "labels") THEN filter_by_labels(coll, op.labels) ELSE MissingField
    [] OTHER -> InvalidInput("Unknown operation")

RECURSIVE ExecPipeline(_, _)
ExecPipeline(coll, ops) ==
  IF ops = <<>> THEN Ok(coll)
  ELSE LET r == ExecOperation(coll, Head(ops))
       IN IF r.ok THEN ExecPipeline(r.data, Tail(ops)) ELSE r

\* the label_filter of a Pipeline Step: one label ([label |-> l]), or a list
\* of labels ([labels |-> L])
ExecLabelFilter(coll, step) ==
  IF ~Has(step, "label_filter") THEN Ok(coll)
  ELSE IF Has(step.label_filter, "label")
    THEN filter_by_label(coll, step.label_filter.label)
    ELSE filter_by_labels(coll, step.label_filter.labels)

\* the aggregation and time_grouping of a Pipeline Step; a time grouping
\* needs its aggregation
ExecReduce(coll, step) ==
  IF Has(step, "time_grouping")
    THEN IF Has(step, "aggregation")
           THEN TimeGroup(coll, step.time_grouping, step.aggregation)
           ELSE MissingField
    ELSE IF Has(step, "aggregation") THEN Collapse(coll, step.aggregation)
    ELSE Ok(coll)

\* one Pipeline Step: label_filter (a no-op over plain metrics), then filter,
\* then aggregation / time_grouping
ExecStep(coll, step, labeled) ==
  LET a == IF labeled THEN ExecLabelFilter(coll, step) ELSE Ok(coll)
  IN IF ~a.ok THEN a
     ELSE LET b == IF Has(step, "filter")
                     THEN IF Has(step.filter, "type") /\ Has(step.filter, "value")
                            THEN Filter(a.data, step.filter)
                            ELSE MissingField
                     ELSE a
          IN IF ~b.ok THEN b ELSE ExecReduce(b.data, step)

RECURSIVE ExecSteps(_, _, _)
ExecSteps(coll, steps, labeled) ==
  IF steps = <<>> THEN Ok(coll)
  ELSE LET r == ExecStep(coll, Head(steps), labeled)
       IN IF r.ok THEN ExecSteps(r.data, Tail(steps), labeled) ELSE r

\* ------------------------------------------------------------------------
\* The engine's operators applied to bounded inputs
\* ------------------------------------------------------------------------

BSeq(S, n) == UNION {[1..k -> S] : k \in 0..n}

\* records around a threshold, for the numeric filters
FilterRecords == [value : {Num(1), Num(2), Num(3)}, timestamp : {10, 20}]
Thresholds == {1, 2, 3}
\* records on both sides of a minute, an hour and a day boundary
GroupRecords == [value : {Num(1), Num(2)}, timestamp : {59, 60, 3599, 3600, 86399, 86400}]
\* a mixed-label collection: labels differing in case only, and records without a label
Labels == {"cpu", "CPU", "memory"}
LabelRecords ==
  [value : {Num(1), Num(2)}, timestamp : {10}, label : Labels]
    \cup [value : {Num(1), Num(2)}, timestamp : {10}]

\* the engine before an operator is applied
NoOperation == [op |-> "none"]
NoOutput == [ok |-> FALSE, error |-> "not run"]

ApplyFilter ==
  \E type \in NumericFilterTypes \cup {"neq"}, v \in Thresholds :
    /\ opn = NoOperation
    /\ opn' = [op |-> "filter", pred |-> [type |-> type, value |-> v]]
    /\ output' = Filter(collection, opn'.pred)
    /\ UNCHANGED collection

ApplyLabelEq ==
  \E l \in Labels :
    /\ opn = NoOperation
    /\ opn' = [op |-> "filter_by_label", label |-> l]
    /\ output' = filter_by_label(collection, l)
    /\ UNCHANGED collection

ApplyLabelIn ==
  \E ls \in SUBSET Labels :
    /\ opn = NoOperation
    /\ opn' = [op |-> "filter_by_labels", labels |-> ls]
    /\ output' = filter_by_labels(collection, ls)
    /\ UNCHANGED collection

ApplyTimeGroup ==
  \E unit \in TimeUnits \cup {"week"}, kind \in AggregationKinds \cup {"median"} :
    /\ opn = NoOperation
    /\ opn' = [op |-> "group_by", time_grouping |-> unit, aggregation |-> kind]
    /\ output' = TimeGroup(collection, unit, kind)
    /\ UNCHANGED collection

EngineIdle == opn = NoOperation /\ output = NoOutput

\* ------------------------------------------------------------------------
\* Initial states of the service and of the dashboard views
\* ------------------------------------------------------------------------

Endpoints == {"/metrics", "/labeled-metrics"}

NoRequest == [method |-> "none", path |-> "none"]
NoResponse == [status |-> 0]

ServerInit ==
  /\ metrics = <<>>
  /\ labeled_metrics = <<>>
  /\ handlers = <<>>
  /\ acks = [e \in Endpoints |-> <<>>]
  /\ lastReq = NoRequest
  /\ lastResp = NoResponse

\* useState initial values of PerformancePage; no run has started
PerfInit ==
  /\ benchmarkResults = <<>>
  /\ isRunning = FALSE
  /\ progress = 0
  /\ perfError = Null
  /\ results = <<>>
  /\ completedBenchmarks = 0
  /\ opIdx = 0
  /\ sizeIdx = 0
  /\ inflight = <<>>
  /\ issued = <<>>
  /\ runs = 0

\* useState initial values of PlaygroundPage, before its mount effect has run
PageInit ==
  /\ originalMetrics = <<>>
  /\ transformedMetrics = <<>>
  /\ isLoading = FALSE
  /\ error = Null
  /\ executionTime = <<>>
  /\ mounted = FALSE
  /\ pending = <<>>
  /\ clicks = 0

\* useState initial values of TransformationControls
ControlsInit ==
  /\ pipeline = <<>>
  /\ currentOperation = [operation |-> "filter"]
  /\ alertMessage = Null

PlayInit == PageInit /\ ControlsInit

\* nothing rendered yet
ChartInit == chartData = <<>>

\* no release script invoked yet, no release in the cluster
NoCommand == [command |-> "idle", component |-> "none"]
DeployInit ==
  /\ script = "none"
  /\ skipPush = FALSE
  /\ nextCommand = NoCommand
  /\ ran = <<>>
  /\ releaseExists = FALSE
  /\ exitCode = <<>>
  /\ release = FALSE
  /\ deployRuns = 0

\* nothing built, no dashboard server running, no request made
NoServer == [mode |-> "none"]
RouteInit ==
  /\ routesManifest = <<>>
  /\ server = NoServer
  /\ rewritten = <<>>

Services == {"api", "ui"}

\* before docker compose up: no container exists
ComposeInit ==
  /\ health = [svc \in Services |-> "absent"]
  /\ streak = [svc \in Services |-> 0]
  /\ inStartPeriod = [svc \in Services |-> FALSE]
  /\ restartCount = [svc \in Services |-> 0]

\* useState initial values of HomePage, before its mount effect has run
HomeInit ==
  /\ ChartInit /\ DeployInit /\ ComposeInit /\ RouteInit
  /\ apiInfo = <<>>
  /\ homeIsLoading = TRUE
  /\ homeMounted = FALSE
  /\ homePending = <<>>

\* ------------------------------------------------------------------------
\* Query service: request handlers over the Metric Store
\* ------------------------------------------------------------------------

Store(path) == IF path = "/metrics" THEN metrics ELSE labeled_metrics

Posts == Len(acks["/metrics"]) + Len(acks["/labeled-metrics"])

\* the store's records as the engine's collection, and a result as the
\* response's array of {value, timestamp}
ToEngine(store) == [i \in 1..Len(store) |-> [store[i] EXCEPT !.value = Num(@)]]
ToDicts(coll) ==
  [i \in 1..Len(coll) |-> [value |-> coll[i].value, timestamp |-> coll[i].timestamp]]
DropLabels(coll) == ToDicts(coll)

Success(body) == [status |-> 200, body |-> body]
BadRequest(msg) == [status |-> 400, body |-> [error |-> msg]]
ServerError == [status |-> 500, body |-> [error |-> "Internal Server Error"]]

\* an engine result as a response: the final collection, or only the error
Respond(r) == IF r.ok THEN Success(ToDicts(r.data)) ELSE BadRequest(r.error)

\* {value, timestamp?} or {label, value, timestamp?}
ValidBody(path, body) ==
  /\ Has(body, "value")
  /\ path = "/labeled-metrics" => Has(body, "label")

\* the record stored for a body; the timestamp defaults to the current time
StoredRecord(path, body, now) ==
  LET ts == IF Has(body, "timestamp") THEN body.timestamp ELSE now
  IN IF path = "/labeled-metrics"
       THEN [label |-> body.label, value |-> body.value, timestamp |-> ts]
       ELSE [value |-> body.value, timestamp |-> ts]

\* A mutant of AssignedId: ids counted from one.
AssignedIdFromOne(store) == Len(store)

\* the id returned for a record just appended: its zero-based index
AssignedId(store) == Len(store) - 1

AppendTo(path, rec) ==
  IF path = "/metrics"
    THEN metrics' = Append(metrics, rec) /\ UNCHANGED labeled_metrics
    ELSE labeled_metrics' = Append(labeled_metrics, rec) /\ UNCHANGED metrics

StoreUnchanged == UNCHANGED <<metrics, labeled_metrics, acks, handlers>>

\* requests are served one at a time: the next one arrives after the
\* response to the last one has been received
Idle == lastResp = NoResponse /\ handlers = <<>>

ReceiveResponse ==
  /\ lastResp # NoResponse
  /\ lastReq' = NoRequest
  /\ lastResp' = NoResponse
  /\ StoreUnchanged

\* the current time of an ingestion without a timestamp
Clock == {3599}

\* POST /metrics and POST /labeled-metrics
PostMetric(path, body) ==
  /\ Idle
  /\ Posts < MaxPosts
  /\ lastReq' = [method |-> "POST", path |-> path, body |-> body]
  /\ IF ~ValidBody(path, body)
       THEN /\ lastResp' = BadRequest("Missing required field")
            /\ StoreUnchanged
       ELSE \E now \in Clock :
              LET rec == StoredRecord(path, body, now)
                  id == AssignedId(Append(Store(path), rec))
              IN /\ AppendTo(path, rec)
                 /\ acks' = [acks EXCEPT ![path] = Append(@, [id |-> id, rec |-> rec])]
                 /\ lastResp' = Success([status |-> "success", id |-> id])
                 /\ UNCHANGED handlers

\* GET /metrics and GET /labeled-metrics
GetMetrics(path) ==
  /\ Idle
  /\ lastReq' = [method |-> "GET", path |-> path]
  /\ lastResp' = Success(Store(path))
  /\ StoreUnchanged

\* POST /metrics/transform and POST /labeled-metrics/transform
Transform(path, steps) ==
  /\ Idle
  /\ lastReq' = [method |-> "POST", path |-> path, transformations |-> steps]
  /\ lastResp' =
       IF path = "/metrics/transform"
         THEN Respond(ExecSteps(ToEngine(metrics), steps, FALSE))
         ELSE Respond(ExecSteps(ToEngine(labeled_metrics), steps, TRUE))
  /\ StoreUnchanged

\* POST /metrics/pipeline
Pipeline(ops) ==
  /\ Idle
  /\ lastReq' = [method |-> "POST", path |-> "/metrics/pipeline", pipeline |-> ops]
  /\ lastResp' = Respond(ExecPipeline(ToEngine(metrics), ops))
  /\ StoreUnchanged

LabelOperations == {"filter_by_label", "filter_by_labels"}

\* A mutant of ExecLabelOperations: only the first label operation is applied.
ExecLabelOperationsFirstOnly(coll, ops) ==
  IF ops = <<>> THEN Ok(coll)
  ELSE IF Head(ops).operation \in LabelOperations
    THEN ExecOperation(coll, Head(ops))
    ELSE InvalidInput("Unknown operation")

RECURSIVE ExecLabelOperations(_, _)
ExecLabelOperations(coll, ops) ==
  IF ops = <<>> THEN Ok(coll)
  ELSE LET r == IF Head(ops).operation \in LabelOperations
                  THEN ExecOperation(coll, Head(ops))
                  ELSE InvalidInput("Unknown operation")
       IN IF r.ok THEN ExecLabelOperations(r.data, Tail(ops)) ELSE r

\* POST /labeled-metrics/pipeline: the label operations first, then the labels
\* dropped, then the pipeline
LabeledPipeline(label_operations, ops) ==
  /\ Idle
  /\ lastReq' = [method |-> "POST", path |-> "/labeled-metrics/pipeline",
                 label_operations |-> label_operations, pipeline |-> ops]
  /\ lastResp' =
       LET l == ExecLabelOperations(ToEngine(labeled_metrics), label_operations)
       IN IF l.ok THEN Respond(ExecPipeline(DropLabels(l.data), ops))
                  ELSE Respond(l)
  /\ StoreUnchanged

\* POST /transformations/filters and POST /transformations/aggregations:
\* acknowledged, without effect on the engine
Register(path, name) ==
  /\ Idle
  /\ lastReq' = [method |-> "POST", path |-> path, name |-> name]
  /\ lastResp' = Success([status |-> "success", name |-> name])
  /\ StoreUnchanged

\* A mutant of transform_metric: the else branch computes the rate.
transform_metric_fallthrough(data) ==
  LET result ==
        IF data.transform_type = "moving_average"
          THEN moving_average(data.metric,
                              IF Has(data, "window_size") THEN data.window_size ELSE 3)
          ELSE rate(data.metric)
  IN IF result.ok THEN Success([result |-> result.data]) ELSE ServerError

\* the documentation's Flask handler of /api/metrics/transform; a failure
\* raised by the library is not caught by the handler
transform_metric(data) ==
  IF data.transform_type \notin {"moving_average", "rate"}
    THEN BadRequest(<<"Unknown transformation: ", data.transform_type>>)
  ELSE LET result ==
             IF data.transform_type = "moving_average"
               THEN moving_average(data.metric,
                                   IF Has(data, "window_size") THEN data.window_size ELSE 3)
               ELSE rate(data.metric)
       IN IF result.ok THEN Success([result |-> result.data]) ELSE ServerError

TransformMetric(data) ==
  /\ Idle
  /\ lastReq' = [method |-> "POST", path |-> "/api/metrics/transform", data |-> data]
  /\ lastResp' = transform_metric(data)
  /\ StoreUnchanged

\* an ingestion in flight when handlers run concurrently: the body is
\* validated and the record built, then the record is appended, then the id is
\* read off the store for the response
ConcReceive(path, body) ==
  /\ Posts + Len(handlers) < MaxPosts
  /\ ValidBody(path, body)
  /\ \E now \in Clock :
       handlers' = Append(handlers, [path |-> path, pc |-> "append",
                                     rec |-> StoredRecord(path, body, now)])
  /\ UNCHANGED <<metrics, labeled_metrics, acks, lastReq, lastResp>>

ConcAppend(i) ==
  /\ handlers[i].pc = "append"
  /\ AppendTo(handlers[i].path, handlers[i].rec)
  /\ handlers' = [handlers EXCEPT ![i].pc = "respond"]
  /\ UNCHANGED <<acks, lastReq, lastResp>>

ConcRespond(i) ==
  /\ handlers[i].pc = "respond"
  /\ acks' = [acks EXCEPT ![handlers[i].path] =
                Append(@, [id |-> AssignedId(Store(handlers[i].path)),
                           rec |-> handlers[i].rec])]
  /\ handlers' = [k \in 1..(Len(handlers) - 1) |->
                    IF k < i THEN handlers[k] ELSE handlers[k + 1]]
  /\ UNCHANGED <<metrics, labeled_metrics, lastReq, lastResp>>

\* ------------------------------------------------------------------------
\* Specifications of the service
\* ------------------------------------------------------------------------

NotServer == UNCHANGED <<engineVars, perfVars, playVars, homeVars, chartVars, deployVars, composeVars, routeVars>>

InitServer ==
  /\ collection = <<>>
  /\ EngineIdle /\ ServerInit /\ PerfInit /\ PlayInit /\ HomeInit

\* ingestion bodies: with and without a timestamp, and without a required field
MetricBodies ==
  [value : {1, 2}, timestamp : {10}] \cup [value : {1, 2}] \cup {[timestamp |-> 10]}
LabeledBodies ==
  [label : {"cpu", "memory"}, value : {2}, timestamp : {10}]
    \cup [label : {"cpu", "memory"}, value : {2}]
    \cup {[value |-> 2, timestamp |-> 10]}
Bodies(path) == IF path = "/metrics" THEN MetricBodies ELSE LabeledBodies

NextStore ==
  \/ \E path \in Endpoints : \E body \in Bodies(path) : PostMetric(path, body) /\ NotServer
  \/ \E path \in Endpoints : GetMetrics(path) /\ NotServer
  \/ ReceiveResponse /\ NotServer

SpecStore == InitServer /\ [][NextStore]_vars

NextConc ==
  \/ \E path \in Endpoints : \E body \in Bodies(path) : ConcReceive(path, body) /\ NotServer
  \/ \E i \in 1..Len(handlers) : ConcAppend(i) /\ NotServer
  \/ \E i \in 1..Len(handlers) : ConcRespond(i) /\ NotServer

SpecConc == InitServer /\ [][NextConc]_vars

\* the records ingested before the transformations are requested
SampleMetrics == {[value |-> 1, timestamp |-> 10], [value |-> 3, timestamp |-> 70]}
SampleLabeled == {[label |-> "cpu", value |-> 2, timestamp |-> 10],
                  [label |-> "memory", value |-> 2, timestamp |-> 10]}
Samples(path) == IF path = "/metrics" THEN SampleMetrics ELSE SampleLabeled

\* Pipeline Steps and Fluent Pipeline Operations, with literals the engine
\* knows and literals it does not
Steps ==
  {[filter |-> [type |-> "gt", value |-> 1]],
   [filter |-> [type |-> "between", value |-> 1]],
   [aggregation |-> "sum"],
   [aggregation |-> "median"],
   [time_grouping |-> "minute", aggregation |-> "sum"],
   [time_grouping |-> "week", aggregation |-> "sum"],
   [label_filter |-> [label |-> "cpu"]],
   [label_filter |-> [labels |-> {"cpu", "memory"}], filter |-> [type |-> "ge", value |-> 2]]}

Operations ==
  {[operation |-> "filter", type |-> "gt", value |-> 1],
   [operation |-> "filter", type |-> "between", value |-> 1],
   [operation |-> "aggregate", type |-> "sum"],
   [operation |-> "aggregate", type |-> "median"],
   [operation |-> "group_by", time_grouping |-> "minute", aggregation |-> "sum"],
   [operation |-> "group_by", time_grouping |-> "week", aggregation |-> "sum"],
   [operation |-> "group_by_hour", aggregation |-> "max"],
   [operation |-> "explode"]}

LabelSteps ==
  {[operation |-> "filter_by_label", label |-> "cpu"],
   [operation |-> "filter_by_labels", labels |-> {"cpu", "memory"}],
   [operation |-> "drop_label", label |-> "cpu"]}

Series ==
  {[values |-> <<Num(1), Num(3), Num(2)>>, timestamps |-> <<10, 20, 40>>],
   [values |-> <<Num(1), Num(3)>>, timestamps |-> <<10, 10>>]}

TransformRequests ==
  [metric : Series, transform_type : {"moving_average", "rate", "derivative"}]
    \cup [metric : Series, transform_type : {"moving_average", "derivative"},
          window_size : {0, 2}]

NextTransform ==
  \/ \E path \in Endpoints : \E body \in Samples(path) : PostMetric(path, body) /\ NotServer
  \/ \E path \in {"/metrics/transform", "/labeled-metrics/transform"} :
       \E steps \in BSeq(Steps, MaxOps) : Transform(path, steps) /\ NotServer
  \/ \E ops \in BSeq(Operations, MaxOps) : Pipeline(ops) /\ NotServer
  \/ \E label_operations \in {<<>>} \cup {<<o>> : o \in LabelSteps} :
       \E ops \in BSeq(Operations, MaxOps) :
         LabeledPipeline(label_operations, ops) /\ NotServer
  \/ \E path \in {"/transformations/filters", "/transformations/aggregations"} :
       Register(path, "custom") /\ NotServer
  \/ \E data \in TransformRequests : TransformMetric(data) /\ NotServer
  \/ ReceiveResponse /\ NotServer

SpecTransform == InitServer /\ [][NextTransform]_vars

\* labeled records of two labels, in two hours
UsageSamples ==
  {[label |-> "CPU_USAGE", value |-> 75, timestamp |-> 10],
   [label |-> "CPU_USAGE", value |-> 85, timestamp |-> 3610],
   [label |-> "MEMORY_USAGE", value |-> 40, timestamp |-> 10]}

UsageLabelOperations ==
  {[operation |-> "filter_by_label", label |-> "CPU_USAGE"],
   [operation |-> "filter_by_labels", labels |-> {"CPU_USAGE", "MEMORY_USAGE"}],
   [operation |-> "filter_by_labels", labels |-> {"MEMORY_USAGE"}]}

UsageOperations ==
  {[operation |-> "greater_than", value |-> 50],
   [operation |-> "group_by_hour", aggregation |-> "avg"],
   [operation |-> "sum"]}

NextLabeledPipeline ==
  \/ \E body \in UsageSamples : PostMetric("/labeled-metrics", body) /\ NotServer
  \/ \E label_operations \in BSeq(UsageLabelOperations, MaxOps) :
       \E ops \in BSeq(UsageOperations, MaxOps) :
         LabeledPipeline(label_operations, ops) /\ NotServer
  \/ ReceiveResponse /\ NotServer

SpecLabeledPipeline == InitServer /\ [][NextLabeledPipeline]_vars

\* plain records of two values, in two hours
AggregationSamples == [value : {1, 3}, timestamp : {10, 3610}]

\* filters, whole-collection aggregations and a time grouping
AggregationOperations ==
  {[operation |-> "greater_than", value |-> 1],
   [operation |-> "sum"],
   [operation |-> "average"],
   [operation |-> "aggregate", type |-> "count"],
   [operation |-> "group_by_hour", aggregation |-> "avg"]}

AggregationSteps ==
  {[filter |-> [type |-> "gt", value |-> 1]],
   [aggregation |-> "avg"],
   [time_grouping |-> "hour", aggregation |-> "sum"],
   [filter |-> [type |-> "gt", value |-> 1], aggregation |-> "sum"]}

NextAggregations ==
  \/ \E body \in AggregationSamples : PostMetric("/metrics", body) /\ NotServer
  \/ \E ops \in BSeq(AggregationOperations, MaxOps) : Pipeline(ops) /\ NotServer
  \/ \E steps \in BSeq(AggregationSteps, MaxOps) :
       Transform("/metrics/transform", steps) /\ NotServer
  \/ ReceiveResponse /\ NotServer

SpecAggregations == InitServer /\ [][NextAggregations]_vars

\* ------------------------------------------------------------------------
\* Specifications of the engine's operators
\* ------------------------------------------------------------------------

NotEngine == UNCHANGED <<serverVars, perfVars, playVars, homeVars, chartVars, deployVars, composeVars, routeVars>>

InitFilter ==
  /\ collection \in BSeq(FilterRecords, MaxLen)
  /\ EngineIdle /\ ServerInit /\ PerfInit /\ PlayInit /\ HomeInit

NextFilter == ApplyFilter /\ NotEngine

SpecFilter == InitFilter /\ [][NextFilter]_vars

InitLabel ==
  /\ collection \in BSeq(LabelRecords, MaxLen)
  /\ EngineIdle /\ ServerInit /\ PerfInit /\ PlayInit /\ HomeInit

NextLabel ==
  \/ ApplyLabelEq /\ NotEngine
  \/ ApplyLabelIn /\ NotEngine

SpecLabel == InitLabel /\ [][NextLabel]_vars

InitTimeGroup ==
  /\ collection \in BSeq(GroupRecords, MaxLen)
  /\ EngineIdle /\ ServerInit /\ PerfInit /\ PlayInit /\ HomeInit

NextTimeGroup == ApplyTimeGroup /\ NotEngine

SpecTimeGroup == InitTimeGroup /\ [][NextTimeGroup]_vars

\* ------------------------------------------------------------------------
\* Properties of the engine's operators
\* ------------------------------------------------------------------------

\* the k-th smallest index of a set of indices
KthOf(idx, k) == CHOOSE i \in idx : Cardinality({j \in idx : j <= i}) = k

\* out is exactly the records of in that satisfy Sat, in their original order
ExactSubsequence(in, out, Sat(_)) ==
  LET idx == {i \in 1..Len(in) : Sat(in[i])}
  IN /\ Len(out) = Cardinality(idx)
     /\ \A k \in 1..Len(out) : out[k] = in[KthOf(idx, k)]

Satisfies(type, r, threshold) ==
  CASE type = "gt" -> r.value.n > threshold * r.value.d
    [] type = "lt" -> r.value.n < threshold * r.value.d
    [] type = "ge" -> r.value.n >= threshold * r.value.d
    [] type = "le" -> r.value.n <= threshold * r.value.d
    [] type = "eq" -> r.value.n = threshold * r.value.d

\* C4: Filter correctness.  For every collection, comparator kind (gt, lt, ge,
\* le, eq) and threshold, the Filter output is exactly the subsequence of the
\* input records whose value satisfies the comparator: every output record
\* satisfies it, every satisfying input record is in the output, and the
\* original relative order is kept.
C4_FilterCorrect ==
  (opn.op = "filter" /\ opn.pred.type \in {"gt", "lt", "ge", "le", "eq"}) =>
    /\ output.ok
    /\ \A k \in 1..Len(output.data) :
         Satisfies(opn.pred.type, output.data[k], opn.pred.value)
    /\ ExactSubsequence(collection, output.data,
                        LAMBDA r : Satisfies(opn.pred.type, r, opn.pred.value))

\* a ge filter that keeps a record equal to the threshold and one above it,
\* and drops one below it that stood between them
C4_Witness ==
  /\ opn.op = "filter" /\ opn.pred.type = "ge" /\ opn.pred.value = 2
  /\ output.ok
  /\ Len(collection) = 3 /\ Len(output.data) = 2
  /\ collection[1].value = Num(2) /\ collection[2].value = Num(1)
  /\ collection[3].value = Num(3)

\* the seconds of a time unit, as the claim gives them
UnitSeconds(unit) ==
  CASE unit = "minute" -> 60 [] unit = "hour" -> 3600 [] unit = "day" -> 86400

RECURSIVE SumAt(_, _)
SumAt(coll, I) ==
  IF I = {} THEN 0
  ELSE LET i == CHOOSE j \in I : TRUE
       IN coll[i].value.n + SumAt(coll, I \ {i})

\* v is the aggregate of the (integer) values of coll at the indices I
IsAggregateOf(kind, v, coll, I) ==
  CASE kind = "sum" -> v.d = 1 /\ v.n = SumAt(coll, I)
    [] kind = "count" -> v.d = 1 /\ v.n = Cardinality(I)
    [] kind = "avg" -> v.d > 0 /\ v.n * Cardinality(I) = SumAt(coll, I) * v.d
    [] kind = "min" -> /\ \E i \in I : v = coll[i].value
                       /\ \A i \in I : v.n <= coll[i].value.n * v.d
    [] kind = "max" -> /\ \E i \in I : v = coll[i].value
                       /\ \A i \in I : v.n >= coll[i].value.n * v.d

\* C5: Time-bucket boundary.  Time-group with unit size S (60, 3600, 86400)
\* places a record with timestamp t in the bucket starting at floor(t/S)*S and
\* returns exactly one record per non-empty bucket, whose timestamp is the
\* bucket start and whose value is the aggregate of the bucket's values,
\* ordered by ascending bucket start.
C5_TimeBucket ==
  (/\ opn.op = "group_by"
   /\ opn.time_grouping \in {"minute", "hour", "day"}
   /\ opn.aggregation \in {"sum", "avg", "min", "max", "count"}) =>
    LET S == UnitSeconds(opn.time_grouping)
        out == output.data
        Members(b) ==
          {i \in 1..Len(collection) :
             b <= collection[i].timestamp /\ collection[i].timestamp < b + S}
    IN /\ output.ok
       /\ {out[k].timestamp : k \in 1..Len(out)} =
            {collection[i].timestamp - (collection[i].timestamp % S) :
               i \in 1..Len(collection)}
       /\ \A k \in 1..Len(out) : out[k].timestamp % S = 0
       /\ \A k \in 1..(Len(out) - 1) : out[k].timestamp < out[k + 1].timestamp
       /\ \A k \in 1..Len(out) :
            IsAggregateOf(opn.aggregation, out[k].value, collection,
                          Members(out[k].timestamp))

\* records at 3599 and 3600 grouped by hour: two buckets, starting at 0 and 3600,
\* the first averaging two values to a value no input record has
C5_Witness ==
  /\ opn.op = "group_by" /\ opn.time_grouping = "hour" /\ opn.aggregation = "avg"
  /\ output.ok
  /\ Len(collection) = 3
  /\ collection[1].timestamp = 3600 /\ collection[2].timestamp = 3599
  /\ collection[3].timestamp = 60
  /\ Len(output.data) = 2
  /\ output.data[1] = [value |-> [n |-> 3, d |-> 2], timestamp |-> 0]
  /\ output.data[2].timestamp = 3600

\* C6: Label filter exactness.  On any mixed-label collection label_eq L
\* returns exactly the records whose label equals L, case-sensitively,
\* label_in S returns exactly the records whose label is a member of S, and
\* a record that has no label is in the output of neither.
C6_LabelFilterExact ==
  /\ opn.op = "filter_by_label" =>
       /\ output.ok
       /\ \A k \in 1..Len(output.data) : HasLabel(output.data[k])
       /\ ExactSubsequence(collection, output.data,
                           LAMBDA r : "label" \in DOMAIN r /\ r.label = opn.label)
  /\ opn.op = "filter_by_labels" =>
       /\ output.ok
       /\ \A k \in 1..Len(output.data) : HasLabel(output.data[k])
       /\ ExactSubsequence(collection, output.data,
                           LAMBDA r : "label" \in DOMAIN r /\ r.label \in opn.labels)

\* label_in {cpu, memory} over a collection holding cpu, CPU, memory and a
\* record without a label: the union of cpu and memory, in order
C6_Witness ==
  /\ opn.op = "filter_by_labels" /\ opn.labels = {"cpu", "memory"}
  /\ Len(collection) = 3
  /\ collection[1] = [value |-> Num(1), timestamp |-> 10, label |-> "memory"]
  /\ ~HasLabel(collection[2])
  /\ HasLabel(collection[3]) /\ collection[3].label = "cpu"
  /\ output.ok
  /\ output.data = <<collection[1], collection[3]>>

\* ------------------------------------------------------------------------
\* Properties of the service
\* ------------------------------------------------------------------------

Answered(method, path) ==
  lastReq.method = method /\ lastReq.path = path /\ lastResp # NoResponse

\* C1: an accepted ingestion returns the zero-based index of the record in
\* the store of its endpoint after the append; the ids of each store are
\* 0, 1, 2, ... in order of ingestion, independently of the other store, a
\* rejected body leaves the stores alone, and a GET returns the records in
\* exactly that order.
C1_IdIsIndex ==
  \A path \in Endpoints :
    /\ Len(Store(path)) = Len(acks[path])
    /\ \A k \in 1..Len(acks[path]) :
         /\ acks[path][k].id = k - 1
         /\ Store(path)[k] = acks[path][k].rec
    /\ Answered("POST", path) /\ lastResp.status = 200
         => /\ ValidBody(path, lastReq.body)
            /\ lastResp.body.id = Len(Store(path)) - 1
            /\ Store(path)[lastResp.body.id + 1].value = lastReq.body.value
    /\ Answered("POST", path) => (lastResp.status = 200 <=> ValidBody(path, lastReq.body))
    /\ Answered("GET", path)
         => lastResp.body = [k \in 1..Len(acks[path]) |-> acks[path][k].rec]

C1_Witness ==
  /\ Len(acks["/metrics"]) = 2
  /\ acks["/metrics"][2].id = 1
  /\ Len(acks["/labeled-metrics"]) = 1
  /\ acks["/labeled-metrics"][1].id = 0
  /\ Answered("GET", "/metrics")
  /\ Len(lastResp.body) = 2

KnownOperations ==
  {"filter", "greater_than", "less_than", "equal_to", "aggregate", "sum", "average",
   "group_by", "group_by_minute", "group_by_hour", "group_by_day",
   "filter_by_label", "filter_by_labels"}

UnknownInStep(step) ==
  \/ Has(step, "filter") /\ step.filter.type \notin FilterTypes
  \/ Has(step, "aggregation") /\ step.aggregation \notin AggregationKinds
  \/ Has(step, "time_grouping") /\ step.time_grouping \notin TimeUnits

UnknownInOperation(op) ==
  \/ op.operation \notin KnownOperations
  \/ op.operation = "filter" /\ op.type \notin FilterTypes
  \/ op.operation = "aggregate" /\ op.type \notin AggregationKinds
  \/ op.operation = "group_by" /\ op.time_grouping \notin TimeUnits
  \/ Has(op, "aggregation") /\ op.aggregation \notin AggregationKinds

UnknownLiteral(req) ==
  \/ /\ req.path \in {"/metrics/transform", "/labeled-metrics/transform"}
     /\ \E i \in 1..Len(req.transformations) : UnknownInStep(req.transformations[i])
  \/ /\ req.path \in {"/metrics/pipeline", "/labeled-metrics/pipeline"}
     /\ \E i \in 1..Len(req.pipeline) : UnknownInOperation(req.pipeline[i])
  \/ /\ req.path = "/labeled-metrics/pipeline"
     /\ \E i \in 1..Len(req.label_operations) :
          req.label_operations[i].operation \notin LabelOperations
  \/ /\ req.path = "/api/metrics/transform"
     /\ req.data.transform_type \notin {"moving_average", "rate"}

ErrorOnly(resp) == resp.status = 400 /\ DOMAIN resp.body = {"error"}

StoreChanged == metrics' # metrics \/ labeled_metrics' # labeled_metrics

C3_ExclusiveIngestion ==
  \A path \in Endpoints :
    /\ \A j, k \in 1..Len(acks[path]) : j # k => acks[path][j].id # acks[path][k].id
    /\ \A k \in 1..Len(acks[path]) :
         /\ acks[path][k].id + 1 \in 1..Len(Store(path))
         /\ Store(path)[acks[path][k].id + 1] = acks[path][k].rec

\* ------------------------------------------------------------------------
\* API client (ui/src/lib/api.ts): the requests the views issue
\* ------------------------------------------------------------------------

getMetrics == [method |-> "GET", path |-> "/metrics"]
pipelineTransform(ops) ==
  [method |-> "POST", path |-> "/metrics/pipeline", body |-> [pipeline |-> ops]]
runTestRequest(scenario) ==
  [method |-> "POST", path |-> "/test", body |-> [scenario |-> scenario]]

\* err.message of a rejected request; the empty string is a missing message
ErrMessages == {"", "Network Error"}
\* endTime - startTime of a settled request, in milliseconds
Elapsed == {7}

\* ------------------------------------------------------------------------
\* Performance view: PerformancePage
\* ------------------------------------------------------------------------

OperationNames == <<"filter", "aggregate", "timeGroup", "complex">>

BENCHMARK_OPERATIONS ==
  [filter |-> [operation |-> "greater_than", value |-> 50],
   aggregate |-> [operation |-> "sum"],
   timeGroup |-> [operation |-> "group_by_hour", aggregation |-> "avg"],
   complex |-> <<[operation |-> "greater_than", value |-> 50],
                 [operation |-> "group_by_hour", aggregation |-> "sum"]>>]

DATA_SIZES == <<100, 500, 1000, 5000, 10000>>

totalBenchmarks == Len(OperationNames) * Len(DATA_SIZES)

\* the outcomes of Math.random() told apart in a generated dataset
Draws == {1, 2}

\* count records with random values and timestamps
generateRandomMetrics(count, draw) == [length |-> count, draw |-> draw]

\* Array.isArray(operations) ? operations : [operations]
operationsArray(opName) ==
  IF opName = "complex" THEN BENCHMARK_OPERATIONS[opName]
                        ELSE <<BENCHMARK_OPERATIONS[opName]>>

\* runSingleBenchmark up to its await: the dataset is generated, and the
\* request is built from the operations
Benchmark(o, s, draw) ==
  [operation |-> OperationNames[o],
   dataSize |-> DATA_SIZES[s],
   metrics |-> generateRandomMetrics(DATA_SIZES[s], draw),
   request |-> pipelineTransform(operationsArray(OperationNames[o]))]

\* A mutant of NextPair: the sizes in the outer loop.
NextPairSizesOutside(o, s) ==
  IF o < Len(OperationNames) THEN <<o + 1, s>> ELSE <<1, s + 1>>

\* the nested for loops: sizes inside, operations outside
NextPair(o, s) ==
  IF s < Len(DATA_SIZES) THEN <<o, s + 1>> ELSE <<o + 1, 1>>

LoopDone(pair) == pair[1] > Len(OperationNames) \/ pair[2] > Len(DATA_SIZES)

Pair(b) == [operation |-> b.operation, dataSize |-> b.dataSize]

BenchmarkFailed(message) ==
  IF message = "" THEN "Benchmark failed: Unknown error"
                  ELSE "Benchmark failed: Network Error"

\* A mutant of ClickRunBenchmarks: the published results are not cleared.
ClickRunBenchmarksKeepResults ==
  /\ ~isRunning
  /\ runs < MaxRuns
  /\ runs' = runs + 1
  /\ isRunning' = TRUE
  /\ perfError' = Null
  /\ results' = <<>>
  /\ completedBenchmarks' = 0
  /\ opIdx' = 1
  /\ sizeIdx' = 1
  /\ \E draw \in Draws :
       LET b == Benchmark(1, 1, draw)
       IN inflight' = <<b>> /\ issued' = <<Pair(b)>>
  /\ UNCHANGED <<progress, benchmarkResults>>

\* click on "Run Benchmarks" (disabled while isRunning): runBenchmarks up to
\* the await of the first pair
ClickRunBenchmarks ==
  /\ ~isRunning
  /\ runs < MaxRuns
  /\ runs' = runs + 1
  /\ isRunning' = TRUE
  /\ perfError' = Null
  /\ benchmarkResults' = <<>>
  /\ results' = <<>>
  /\ completedBenchmarks' = 0
  /\ opIdx' = 1
  /\ sizeIdx' = 1
  /\ \E draw \in Draws :
       LET b == Benchmark(1, 1, draw)
       IN inflight' = <<b>> /\ issued' = <<Pair(b)>>
  /\ UNCHANGED progress

\* the awaited request resolves: the result is pushed, the progress updated,
\* and the loop goes on to the next pair or ends the run
BenchmarkResolved ==
  /\ inflight # <<>>
  /\ \E t \in Elapsed :
       results' = Append(results, [operation |-> inflight[1].operation,
                                   dataSize |-> inflight[1].dataSize,
                                   executionTime |-> t])
  /\ completedBenchmarks' = completedBenchmarks + 1
  /\ LET next == NextPair(opIdx, sizeIdx)
     IN /\ opIdx' = next[1]
        /\ sizeIdx' = next[2]
        /\ IF LoopDone(next)
             THEN /\ benchmarkResults' = results'
                  /\ isRunning' = FALSE
                  /\ progress' = 100
                  /\ inflight' = <<>>
                  /\ UNCHANGED issued
             ELSE /\ progress' = (completedBenchmarks' * 100) \div totalBenchmarks
                  /\ \E draw \in Draws :
                       LET b == Benchmark(next[1], next[2], draw)
                       IN inflight' = <<b>> /\ issued' = Append(issued, Pair(b))
                  /\ UNCHANGED <<benchmarkResults, isRunning>>
  /\ UNCHANGED <<perfError, runs>>

\* the awaited request rejects: the run ends with the error
BenchmarkRejected ==
  /\ inflight # <<>>
  /\ \E message \in ErrMessages : perfError' = BenchmarkFailed(message)
  /\ isRunning' = FALSE
  /\ progress' = 100
  /\ inflight' = <<>>
  /\ UNCHANGED <<benchmarkResults, results, completedBenchmarks, opIdx, sizeIdx,
                 issued, runs>>

NotPerf == UNCHANGED <<engineVars, serverVars, playVars, homeVars, chartVars, deployVars, composeVars, routeVars>>

InitPerf ==
  /\ collection = <<>>
  /\ EngineIdle /\ ServerInit /\ PerfInit /\ PlayInit /\ HomeInit

NextPerf ==
  \/ ClickRunBenchmarks /\ NotPerf
  \/ BenchmarkResolved /\ NotPerf
  \/ BenchmarkRejected /\ NotPerf

SpecPerf == InitPerf /\ [][NextPerf]_vars

\* ------------------------------------------------------------------------
\* Playground view: PlaygroundPage and its TransformationControls
\* ------------------------------------------------------------------------

Scenarios == {"basic_filtering", "time_grouping", "aggregation"}

\* the current time, in seconds
Now == 1000000

\* A mutant of testData: the index counted from one.
testDataFromOne == [k \in 1..50 |-> [value |-> k * 10, timestamp |-> 1000000 - k * 3600]]

\* Array(50).fill(null).map((_, i) => ...)
testData == [k \in 1..50 |-> [value |-> (k - 1) * 10, timestamp |-> Now - (k - 1) * 3600]]

FailedToLoad == "Failed to load metrics data. Please try again later."
TransformationFailed(message) ==
  IF message = "" THEN "Transformation failed: Unknown error"
                  ELSE "Transformation failed: Network Error"
TestFailed(message) ==
  IF message = "" THEN "Test failed: Unknown error"
                  ELSE "Test failed: Network Error"

Without(seq, i) ==
  [k \in 1..(Len(seq) - 1) |-> IF k < i THEN seq[k] ELSE seq[k + 1]]

\* A mutant of LoadRejected: the catch block leaves the flag set.
LoadRejectedFlagKept(i) ==
  /\ pending[i].action = "load"
  /\ error' = "Failed to load metrics data. Please try again later."
  /\ pending' = [k \in 1..(Len(pending) - 1) |-> IF k < i THEN pending[k] ELSE pending[k + 1]]
  /\ UNCHANGED <<originalMetrics, transformedMetrics, executionTime, mounted, clicks,
                 controlsVars, isLoading>>

\* the mount effect: loadInitialData up to its await
Mount ==
  /\ ~mounted
  /\ mounted' = TRUE
  /\ isLoading' = TRUE
  /\ pending' = Append(pending, [action |-> "load", request |-> getMetrics])
  /\ UNCHANGED <<originalMetrics, transformedMetrics, error, executionTime, clicks,
                 controlsVars>>

LoadResolved(i, data) ==
  /\ pending[i].action = "load"
  /\ originalMetrics' = data
  /\ isLoading' = FALSE
  /\ pending' = Without(pending, i)
  /\ UNCHANGED <<transformedMetrics, error, executionTime, mounted, clicks, controlsVars>>

LoadRejected(i) ==
  /\ pending[i].action = "load"
  /\ error' = FailedToLoad
  /\ isLoading' = FALSE
  /\ pending' = Without(pending, i)
  /\ UNCHANGED <<originalMetrics, transformedMetrics, executionTime, mounted, clicks,
                 controlsVars>>

\* handleApplyTransformations up to its await
handleApplyTransformations(ops) ==
  /\ isLoading' = TRUE
  /\ error' = Null
  /\ pending' = Append(pending, [action |-> "apply", request |-> pipelineTransform(ops)])

\* click on "Apply Transformations": an empty pipeline is only a warning
applyTransformations ==
  /\ mounted
  /\ clicks < MaxClicks
  /\ clicks' = clicks + 1
  /\ IF pipeline = <<>>
       THEN /\ alertMessage' = "Please add at least one transformation"
            /\ UNCHANGED <<isLoading, error, pending>>
       ELSE /\ handleApplyTransformations(pipeline)
            /\ UNCHANGED alertMessage
  /\ UNCHANGED <<originalMetrics, transformedMetrics, executionTime, mounted,
                 pipeline, currentOperation>>

\* click on one of the demo buttons: runTest up to its await; the handler
\* keeps the originalMetrics of the render it was created in
runTest(testType) ==
  /\ mounted
  /\ clicks < MaxClicks
  /\ clicks' = clicks + 1
  /\ isLoading' = TRUE
  /\ error' = Null
  /\ pending' = Append(pending, [action |-> testType,
                                 request |-> runTestRequest(testType),
                                 originalMetrics |-> originalMetrics])
  /\ UNCHANGED <<originalMetrics, transformedMetrics, executionTime, mounted, controlsVars>>

ApplyResolved(i, result) ==
  /\ pending[i].action = "apply"
  /\ \E t \in Elapsed : executionTime' = <<t>>
  /\ transformedMetrics' = result
  /\ isLoading' = FALSE
  /\ pending' = Without(pending, i)
  /\ UNCHANGED <<originalMetrics, error, mounted, clicks, controlsVars>>

ApplyRejected(i) ==
  /\ pending[i].action = "apply"
  /\ \E message \in ErrMessages : error' = TransformationFailed(message)
  /\ isLoading' = FALSE
  /\ pending' = Without(pending, i)
  /\ UNCHANGED <<originalMetrics, transformedMetrics, executionTime, mounted, clicks,
                 controlsVars>>

\* result.sample_results || result.results (an array is truthy, even if empty)
ResultsOf(result) ==
  IF Has(result, "sample_results") THEN result.sample_results ELSE result.results

TestResolved(i, result) ==
  /\ pending[i].action \in Scenarios
  /\ \E t \in Elapsed : executionTime' = <<t>>
  /\ IF Has(result, "sample_results") \/ Has(result, "results")
       THEN /\ transformedMetrics' = ResultsOf(result)
            /\ IF Len(ResultsOf(result)) > 0 /\ Len(pending[i].originalMetrics) = 0
                 THEN originalMetrics' = testData
                 ELSE UNCHANGED originalMetrics
       ELSE UNCHANGED <<transformedMetrics, originalMetrics>>
  /\ isLoading' = FALSE
  /\ pending' = Without(pending, i)
  /\ UNCHANGED <<error, mounted, clicks, controlsVars>>

\* A mutant of TestRejected: the results of the last action are cleared.
TestRejectedClearsResults(i) ==
  /\ pending[i].action \in Scenarios
  /\ \E message \in ErrMessages : error' = TestFailed(message)
  /\ isLoading' = FALSE
  /\ pending' = Without(pending, i)
  /\ transformedMetrics' = <<>>
  /\ executionTime' = <<>>
  /\ UNCHANGED <<originalMetrics, mounted, clicks, controlsVars>>

TestRejected(i) ==
  /\ pending[i].action \in Scenarios
  /\ \E message \in ErrMessages : error' = TestFailed(message)
  /\ isLoading' = FALSE
  /\ pending' = Without(pending, i)
  /\ UNCHANGED <<originalMetrics, transformedMetrics, executionTime, mounted, clicks,
                 controlsVars>>

\* response bodies of the service
StoredMetrics == {<<>>, <<[value |-> 75, timestamp |-> 3600]>>}
PipelineResults == {<<>>, <<[value |-> 75, timestamp |-> 3600]>>}
TestResults ==
  {[results |-> <<>>],
   [results |-> <<[value |-> 60, timestamp |-> 7200]>>],
   [sample_results |-> <<[value |-> 60, timestamp |-> 7200]>>],
   [status |-> "success"]}

\* pipelines the controls hold when the operator clicks
BuiltPipelines ==
  {<<>>,
   <<[operation |-> "filter", type |-> "gt", value |-> 50]>>,
   <<[operation |-> "filter", type |-> "gt", value |-> 50],
     [operation |-> "aggregate", type |-> "sum"]>>}

NotPlay == UNCHANGED <<engineVars, serverVars, perfVars, homeVars, chartVars, deployVars, composeVars, routeVars>>

InitPlay ==
  /\ collection = <<>>
  /\ EngineIdle /\ ServerInit /\ PerfInit /\ PageInit /\ HomeInit
  /\ pipeline \in BuiltPipelines
  /\ currentOperation = [operation |-> "filter"]
  /\ alertMessage = Null

NextPlay ==
  \/ Mount /\ NotPlay
  \/ \E i \in 1..Len(pending) : \E data \in StoredMetrics : LoadResolved(i, data) /\ NotPlay
  \/ \E i \in 1..Len(pending) : LoadRejected(i) /\ NotPlay
  \/ applyTransformations /\ NotPlay
  \/ \E testType \in Scenarios : runTest(testType) /\ NotPlay
  \/ \E i \in 1..Len(pending) : \E result \in PipelineResults : ApplyResolved(i, result) /\ NotPlay
  \/ \E i \in 1..Len(pending) : ApplyRejected(i) /\ NotPlay
  \/ \E i \in 1..Len(pending) : \E result \in TestResults : TestResolved(i, result) /\ NotPlay
  \/ \E i \in 1..Len(pending) : TestRejected(i) /\ NotPlay

SpecPlay == InitPlay /\ [][NextPlay]_vars

\* ------------------------------------------------------------------------
\* Overview view: HomePage
\* ------------------------------------------------------------------------

\* bodies of GET /api/
ApiInfos == {[name |-> "Metric Query API"]}

\* the mount effect: fetchApiInfo up to await fetch('/api/')
HomeMount ==
  /\ ~homeMounted
  /\ homeMounted' = TRUE
  /\ homePending' = <<[stage |-> "fetch", request |-> [method |-> "GET", path |-> "/api/"]]>>
  /\ UNCHANGED <<apiInfo, homeIsLoading>>

\* the catch block of fetchApiInfo
fetchApiInfoCatch ==
  /\ apiInfo' = <<>>
  /\ homeIsLoading' = FALSE
  /\ homePending' = <<>>
  /\ UNCHANGED homeMounted

\* fetch resolves: a response that is not ok throws, an ok one is parsed
FetchResolved(ok) ==
  /\ homePending # <<>>
  /\ homePending[1].stage = "fetch"
  /\ IF ok
       THEN /\ homePending' = <<[homePending[1] EXCEPT !.stage = "json"]>>
            /\ UNCHANGED <<apiInfo, homeIsLoading, homeMounted>>
       ELSE fetchApiInfoCatch

FetchRejected ==
  /\ homePending # <<>>
  /\ homePending[1].stage = "fetch"
  /\ fetchApiInfoCatch

\* response.json() resolves
JsonResolved(data) ==
  /\ homePending # <<>>
  /\ homePending[1].stage = "json"
  /\ apiInfo' = <<data>>
  /\ homeIsLoading' = FALSE
  /\ homePending' = <<>>
  /\ UNCHANGED homeMounted

JsonRejected ==
  /\ homePending # <<>>
  /\ homePending[1].stage = "json"
  /\ fetchApiInfoCatch

NotHome == UNCHANGED <<engineVars, serverVars, perfVars, playVars, chartVars, deployVars, composeVars, routeVars>>

HomeSettles ==
  \/ \E ok \in BOOLEAN : FetchResolved(ok) /\ NotHome
  \/ FetchRejected /\ NotHome
  \/ \E data \in ApiInfos : JsonResolved(data) /\ NotHome
  \/ JsonRejected /\ NotHome

NextHome ==
  \/ HomeMount /\ NotHome
  \/ HomeSettles

\* ------------------------------------------------------------------------
\* The dashboard: one view is open in a page session; every request a view
\* has issued settles sooner or later
\* ------------------------------------------------------------------------

OverviewClosed == ~homeMounted
PlaygroundClosed == ~mounted
PerformanceClosed == runs = 0

PlaySettles ==
  \/ \E i \in 1..Len(pending) : \E data \in StoredMetrics : LoadResolved(i, data) /\ NotPlay
  \/ \E i \in 1..Len(pending) : LoadRejected(i) /\ NotPlay
  \/ \E i \in 1..Len(pending) : \E result \in PipelineResults : ApplyResolved(i, result) /\ NotPlay
  \/ \E i \in 1..Len(pending) : ApplyRejected(i) /\ NotPlay
  \/ \E i \in 1..Len(pending) : \E result \in TestResults : TestResolved(i, result) /\ NotPlay
  \/ \E i \in 1..Len(pending) : TestRejected(i) /\ NotPlay

PerfSettles ==
  \/ BenchmarkResolved /\ NotPerf
  \/ BenchmarkRejected /\ NotPerf

InitDashboard == InitPlay

OverviewOpen == PlaygroundClosed /\ PerformanceClosed
PlaygroundOpen == OverviewClosed /\ PerformanceClosed
PerformanceOpen == OverviewClosed /\ PlaygroundClosed

NextDashboard ==
  \/ OverviewOpen /\ HomeMount /\ NotHome
  \/ OverviewOpen /\ \E ok \in BOOLEAN : FetchResolved(ok) /\ NotHome
  \/ OverviewOpen /\ FetchRejected /\ NotHome
  \/ OverviewOpen /\ \E data \in ApiInfos : JsonResolved(data) /\ NotHome
  \/ OverviewOpen /\ JsonRejected /\ NotHome
  \/ PlaygroundOpen /\ Mount /\ NotPlay
  \/ PlaygroundOpen /\ applyTransformations /\ NotPlay
  \/ PlaygroundOpen /\ \E testType \in Scenarios : runTest(testType) /\ NotPlay
  \/ PlaygroundOpen /\ \E i \in 1..Len(pending) :
       \E data \in StoredMetrics : LoadResolved(i, data) /\ NotPlay
  \/ PlaygroundOpen /\ \E i \in 1..Len(pending) : LoadRejected(i) /\ NotPlay
  \/ PlaygroundOpen /\ \E i \in 1..Len(pending) :
       \E result \in PipelineResults : ApplyResolved(i, result) /\ NotPlay
  \/ PlaygroundOpen /\ \E i \in 1..Len(pending) : ApplyRejected(i) /\ NotPlay
  \/ PlaygroundOpen /\ \E i \in 1..Len(pending) :
       \E result \in TestResults : TestResolved(i, result) /\ NotPlay
  \/ PlaygroundOpen /\ \E i \in 1..Len(pending) : TestRejected(i) /\ NotPlay
  \/ PerformanceOpen /\ ClickRunBenchmarks /\ NotPerf
  \/ PerformanceOpen /\ BenchmarkResolved /\ NotPerf
  \/ PerformanceOpen /\ BenchmarkRejected /\ NotPerf

SpecDashboard ==
  /\ InitDashboard
  /\ [][NextDashboard]_vars
  /\ WF_vars(HomeSettles)
  /\ WF_vars(PlaySettles)
  /\ WF_vars(PerfSettles)

\* ------------------------------------------------------------------------
\* TransformationControls: the draft operation and the pipeline
\* ------------------------------------------------------------------------

\* the options the operator picks in the selects; "" is the placeholder
\* option of a select
OperationOptions ==
  {"filter", "greater_than", "aggregate", "sum", "group_by", "group_by_hour"}
FilterTypeOptions == {"", "gt"}
AggregationTypeOptions == {"", "sum"}
TimeGroupingOptions == {"", "hour"}
AggregationOptions == {"", "avg"}
\* the text of the value input: a number, or the cleared input
ValueTexts == {"50", ""}

\* NaN, kept apart from every number the value input produces
NaN == -1

\* parseInt of the input's text
parseInt(text) == IF text = "50" THEN 50 ELSE NaN

\* { ...obj, field: v }
With(obj, field, v) ==
  [f \in DOMAIN obj \cup {field} |-> IF f = field THEN v ELSE obj[f]]

\* !obj.field for a string field: undefined or the empty string
Falsy(obj, field) == ~Has(obj, field) \/ obj[field] = ""

PageUnchanged == UNCHANGED pageVars

handleOperationChange(operation) ==
  /\ currentOperation' = [operation |-> operation]
  /\ UNCHANGED <<pipeline, alertMessage>>
  /\ PageUnchanged

\* the type select is rendered for filter and for aggregate
handleTypeChange(type) ==
  /\ \/ currentOperation.operation = "filter" /\ type \in FilterTypeOptions
     \/ currentOperation.operation = "aggregate" /\ type \in AggregationTypeOptions
  /\ currentOperation' = With(currentOperation, "type", type)
  /\ UNCHANGED <<pipeline, alertMessage>>
  /\ PageUnchanged

\* the value input is rendered for filter only
handleValueChange(text) ==
  /\ currentOperation.operation = "filter"
  /\ currentOperation' = With(currentOperation, "value", parseInt(text))
  /\ UNCHANGED <<pipeline, alertMessage>>
  /\ PageUnchanged

\* the time grouping select is rendered for group_by only
handleTimeGroupingChange(time_grouping) ==
  /\ currentOperation.operation = "group_by"
  /\ currentOperation' = With(currentOperation, "time_grouping", time_grouping)
  /\ UNCHANGED <<pipeline, alertMessage>>
  /\ PageUnchanged

\* the aggregation select is rendered for group_by and group_by_<unit>
handleAggregationChange(aggregation) ==
  /\ currentOperation.operation
       \in {"group_by", "group_by_minute", "group_by_hour", "group_by_day"}
  /\ currentOperation' = With(currentOperation, "aggregation", aggregation)
  /\ UNCHANGED <<pipeline, alertMessage>>
  /\ PageUnchanged

\* the warning of addOperation for a draft, or Null when the draft is added
AddWarning(draft) ==
  IF draft.operation = "filter" /\ (Falsy(draft, "type") \/ ~Has(draft, "value"))
    THEN "Filter operations require type and value"
  ELSE IF draft.operation = "aggregate" /\ Falsy(draft, "type")
    THEN "Aggregate operations require type"
  ELSE IF draft.operation = "group_by"
          /\ (Falsy(draft, "time_grouping") \/ Falsy(draft, "aggregation"))
    THEN "Group by operations require time grouping and aggregation"
  ELSE Null

\* click on "Add to Pipeline"
addOperation ==
  /\ Len(pipeline) < MaxOps
  /\ IF AddWarning(currentOperation) # Null
       THEN /\ alertMessage' = AddWarning(currentOperation)
            /\ UNCHANGED <<pipeline, currentOperation>>
       ELSE /\ pipeline' = Append(pipeline, currentOperation)
            /\ currentOperation' = [operation |-> "filter"]
            /\ UNCHANGED alertMessage
  /\ PageUnchanged

\* A mutant of removeOperation: splice(index) without a delete count.
removeOperationToEnd(index) ==
  /\ pipeline' = SubSeq(pipeline, 1, index - 1)
  /\ UNCHANGED <<currentOperation, alertMessage>>
  /\ PageUnchanged

\* newPipeline.splice(index, 1), index counted from one here
removeOperation(index) ==
  /\ pipeline' = Without(pipeline, index)
  /\ UNCHANGED <<currentOperation, alertMessage>>
  /\ PageUnchanged

clearPipeline ==
  /\ pipeline' = <<>>
  /\ UNCHANGED <<currentOperation, alertMessage>>
  /\ PageUnchanged

NotControls == UNCHANGED <<engineVars, serverVars, perfVars, homeVars, chartVars, deployVars, composeVars, routeVars>>

InitControls ==
  /\ collection = <<>>
  /\ EngineIdle /\ ServerInit /\ PerfInit /\ PlayInit /\ HomeInit

NextControls ==
  \/ \E operation \in OperationOptions : handleOperationChange(operation) /\ NotControls
  \/ \E type \in FilterTypeOptions \cup AggregationTypeOptions :
       handleTypeChange(type) /\ NotControls
  \/ \E text \in ValueTexts : handleValueChange(text) /\ NotControls
  \/ \E time_grouping \in TimeGroupingOptions :
       handleTimeGroupingChange(time_grouping) /\ NotControls
  \/ \E aggregation \in AggregationOptions : handleAggregationChange(aggregation) /\ NotControls
  \/ addOperation /\ NotControls
  \/ \E index \in 1..Len(pipeline) : removeOperation(index) /\ NotControls
  \/ clearPipeline /\ NotControls

SpecControls == InitControls /\ [][NextControls]_vars

\* the controls inside the Playground page: a pipeline is built and submitted
\* through onApplyTransformations={handleApplyTransformations}
SubmitOperations == {"aggregate", "group_by_hour"}

NextSubmit ==
  \/ Mount /\ NotPlay
  \/ \E operation \in SubmitOperations : handleOperationChange(operation) /\ NotPlay
  \/ handleTypeChange("sum") /\ NotPlay
  \/ addOperation /\ NotPlay
  \/ \E index \in 1..Len(pipeline) : removeOperation(index) /\ NotPlay
  \/ clearPipeline /\ NotPlay
  \/ applyTransformations /\ NotPlay

SpecSubmit == InitControls /\ [][NextSubmit]_vars

\* ------------------------------------------------------------------------
\* MetricChart: the chart data built from the two series
\* ------------------------------------------------------------------------

\* new Date(timestamp * 1000).toLocaleString()
formattedTime(timestamp) == [date |-> timestamp * 1000]

formatData(ms) ==
  [i \in 1..Len(ms) |->
     [value |-> ms[i].value, timestamp |-> ms[i].timestamp,
      formattedTime |-> formattedTime(ms[i].timestamp)]]

\* formattedTransformed.find(t => t.timestamp === timestamp): the first match
FindAt(formatted, timestamp) ==
  LET hits == {i \in 1..Len(formatted) : formatted[i].timestamp = timestamp}
  IN IF hits = {} THEN <<>>
     ELSE <<formatted[CHOOSE i \in hits : \A j \in hits : i <= j]>>

\* one point per original record, with the transformed value of the first
\* transformed record of the same timestamp
OriginalPoints(formattedOriginal, formattedTransformed) ==
  [i \in 1..Len(formattedOriginal) |->
     LET original == formattedOriginal[i]
         transformed == FindAt(formattedTransformed, original.timestamp)
     IN IF transformed # <<>>
          THEN [timestamp |-> original.timestamp,
                formattedTime |-> original.formattedTime,
                originalValue |-> original.value,
                transformedValue |-> transformed[1].value]
          ELSE [timestamp |-> original.timestamp,
                formattedTime |-> original.formattedTime,
                originalValue |-> original.value]]

\* the transformed records whose timestamp is not yet in the chart data are
\* pushed, one after the other
RECURSIVE AddTransformed(_, _)
AddTransformed(points, formattedTransformed) ==
  IF formattedTransformed = <<>> THEN points
  ELSE LET transformed == Head(formattedTransformed)
       IN IF \E k \in 1..Len(points) : points[k].timestamp = transformed.timestamp
            THEN AddTransformed(points, Tail(formattedTransformed))
            ELSE AddTransformed(
                   Append(points, [timestamp |-> transformed.timestamp,
                                   formattedTime |-> transformed.formattedTime,
                                   transformedValue |-> transformed.value]),
                   Tail(formattedTransformed))

\* A mutant of SortByTimestamp: the points in push order.
Unsorted(points) == points

RECURSIVE InsertByTimestamp(_, _)
InsertByTimestamp(sorted, point) ==
  IF sorted = <<>> THEN <<point>>
  ELSE IF point.timestamp - sorted[Len(sorted)].timestamp >= 0
    THEN Append(sorted, point)
    ELSE Append(InsertByTimestamp(SubSeq(sorted, 1, Len(sorted) - 1), point),
                sorted[Len(sorted)])

RECURSIVE SortFrom(_, _)
SortFrom(sorted, points) ==
  IF points = <<>> THEN sorted
  ELSE SortFrom(InsertByTimestamp(sorted, Head(points)), Tail(points))

\* chartData.sort((a, b) => a.timestamp - b.timestamp): a stable sort
SortByTimestamp(points) == SortFrom(<<>>, points)

ChartData(original, transformed) ==
  LET formattedOriginal == formatData(original)
      formattedTransformed == formatData(transformed)
  IN SortByTimestamp(
       AddTransformed(OriginalPoints(formattedOriginal, formattedTransformed),
                      formattedTransformed))

\* MetricChart renders the two series it is given
RenderChart ==
  /\ chartData = <<>>
  /\ chartData' = <<ChartData(originalMetrics, transformedMetrics)>>
  /\ UNCHANGED <<engineVars, serverVars, perfVars, playVars, homeVars, deployVars,
                 composeVars, routeVars>>

\* series with timestamps in one, the other and both of them
OriginalSeries == BSeq([value : {1}, timestamp : {1, 2, 3}], MaxLen)
TransformedSeries == BSeq([value : {5, 6}, timestamp : {2, 3, 4}], MaxLen)

InitChart ==
  /\ collection = <<>>
  /\ EngineIdle /\ ServerInit /\ PerfInit /\ HomeInit /\ ControlsInit
  /\ originalMetrics \in OriginalSeries
  /\ transformedMetrics \in TransformedSeries
  /\ isLoading = FALSE /\ error = Null /\ executionTime = <<>>
  /\ mounted = TRUE /\ pending = <<>> /\ clicks = 0

NextChart == RenderChart

SpecChart == InitChart /\ [][NextChart]_vars

\* ------------------------------------------------------------------------
\* Properties of the dashboard views
\* ------------------------------------------------------------------------

\* C7: while the request of a user action (apply-pipeline, one of the demo
\* buttons, run-benchmarks) is outstanding, no second request of that action
\* is issued.
C7_SingleFlight ==
  /\ \A i, j \in 1..Len(pending) : i # j => pending[i].action # pending[j].action
  /\ Len(inflight) <= 1

BenchmarkOrder ==
  << <<"filter", 100>>, <<"filter", 500>>, <<"filter", 1000>>,
     <<"filter", 5000>>, <<"filter", 10000>>,
     <<"aggregate", 100>>, <<"aggregate", 500>>, <<"aggregate", 1000>>,
     <<"aggregate", 5000>>, <<"aggregate", 10000>>,
     <<"timeGroup", 100>>, <<"timeGroup", 500>>, <<"timeGroup", 1000>>,
     <<"timeGroup", 5000>>, <<"timeGroup", 10000>> ,
     <<"complex", 100>>, <<"complex", 500>>, <<"complex", 1000>>,
     <<"complex", 5000>>, <<"complex", 10000>> >>

\* C8: during a run at most one pipeline request is outstanding, the request
\* of pair i+1 is issued only after the request of pair i has resolved, and
\* the pairs are visited operation by operation (filter, aggregate, timeGroup,
\* complex) with the sizes 100, 500, 1000, 5000, 10000 in that order.
C8_SequentialBenchmarks ==
  /\ Len(inflight) <= 1
  /\ isRunning <=> Len(inflight) = 1
  /\ isRunning => Len(issued) = Len(results) + 1
  /\ Len(issued) <= Len(BenchmarkOrder)
  /\ \A i \in 1..Len(issued) :
       /\ issued[i].operation = BenchmarkOrder[i][1]
       /\ issued[i].dataSize = BenchmarkOrder[i][2]
  /\ \A i \in 1..Len(results) :
       /\ results[i].operation = issued[i].operation
       /\ results[i].dataSize = issued[i].dataSize
  /\ \A i \in 1..Len(inflight) :
       /\ inflight[i].operation = issued[Len(issued)].operation
       /\ inflight[i].dataSize = issued[Len(issued)].dataSize

C8_Witness ==
  /\ runs = 2
  /\ isRunning
  /\ Len(issued) = 20
  /\ Len(results) = 19
  /\ inflight[1].operation = "complex"
  /\ inflight[1].dataSize = 10000

\* C9: whenever a run is in progress, a second or later run included, the
\* displayed progress is floor(100 * completed / 20), completed being the
\* number of finished benchmark calls of the current run.
C9_ProgressAccurate ==
  isRunning => progress = (100 * Len(results)) \div 20

\* C10: the request issued for a pair carries the dataset generated for it.
C10_SubmitsGenerated ==
  \A i \in 1..Len(inflight) :
    /\ Has(inflight[i].request.body, "metrics")
    /\ inflight[i].request.body.metrics = inflight[i].metrics

\* every request of the open view has settled
OverviewSettled == homeMounted /\ homePending = <<>>
PlaygroundSettled == mounted /\ pending = <<>>
PerformanceSettled == runs > 0 /\ inflight = <<>>

\* C11: the loading flag of a view (Overview isLoading, Playground isLoading,
\* Performance isRunning) is false whenever all the view's requests have
\* settled, and once a request has set it, it is eventually cleared, whether
\* the request resolves or rejects.
C11_FlagsCleared ==
  /\ [](OverviewSettled => ~homeIsLoading)
  /\ [](PlaygroundSettled => ~isLoading)
  /\ [](PerformanceSettled => ~isRunning)
  /\ (homePending # <<>>) ~> ~homeIsLoading
  /\ (pending # <<>>) ~> ~isLoading
  /\ isRunning ~> ~isRunning

C11_Witness ==
  /\ PlaygroundSettled
  /\ clicks = 2
  /\ error = "Test failed: Network Error"
  /\ ~isLoading

\* the error banner a view renders: the views that keep an error message
\* show it when it is set; the Overview has none
OverviewBanner == <<>>
PlaygroundBanner == IF error # Null /\ error # "" THEN <<error>> ELSE <<>>
PerformanceBanner == IF perfError # Null /\ perfError # "" THEN <<perfError>> ELSE <<>>

OverviewFetchFailed == OverviewSettled /\ apiInfo = <<>>

\* C12: every view keeps an error message, and a failed fetch of a view
\* brings it to a state that shows a non-empty message in its error banner.
C12_FailureShowsBanner ==
  /\ [](OverviewFetchFailed => OverviewBanner # <<>>)
  /\ [][(\E i \in 1..Len(pending) : LoadRejected(i) \/ ApplyRejected(i) \/ TestRejected(i))
          => PlaygroundBanner' # <<>>]_vars
  /\ [][BenchmarkRejected => PerformanceBanner' # <<>>]_vars

Timestamps(ms) == {ms[i].timestamp : i \in 1..Len(ms)}

CarriesValueOf(point, field, ms) ==
  \E i \in 1..Len(ms) : ms[i].timestamp = point.timestamp /\ ms[i].value = point[field]

\* C13: the chart data holds a point for every timestamp of either series
\* and for no other timestamp; a point carries the original value exactly
\* when its timestamp occurs in the original series and the transformed value
\* exactly when it occurs in the transformed series; the points are in
\* ascending order of timestamp.
C13_ChartMerge ==
  chartData # <<>> =>
    LET points == chartData[1]
    IN /\ {points[k].timestamp : k \in 1..Len(points)}
            = Timestamps(originalMetrics) \cup Timestamps(transformedMetrics)
       /\ \A k \in 1..Len(points) :
            /\ Has(points[k], "originalValue")
                 <=> points[k].timestamp \in Timestamps(originalMetrics)
            /\ Has(points[k], "transformedValue")
                 <=> points[k].timestamp \in Timestamps(transformedMetrics)
            /\ Has(points[k], "originalValue")
                 => CarriesValueOf(points[k], "originalValue", originalMetrics)
            /\ Has(points[k], "transformedValue")
                 => CarriesValueOf(points[k], "transformedValue", transformedMetrics)
       /\ \A j, k \in 1..Len(points) : j < k => points[j].timestamp <= points[k].timestamp

C13_Witness ==
  /\ Timestamps(originalMetrics) = {2, 3}
  /\ Timestamps(transformedMetrics) = {3, 4}
  /\ originalMetrics[1].timestamp = 3
  /\ chartData # <<>>
  /\ Len(chartData[1]) = 3
  /\ DOMAIN chartData[1][1] = {"timestamp", "formattedTime", "originalValue"}
  /\ DOMAIN chartData[1][2]
       = {"timestamp", "formattedTime", "originalValue", "transformedValue"}
  /\ DOMAIN chartData[1][3] = {"timestamp", "formattedTime", "transformedValue"}

\* the 50-point placeholder: value = index * 10, timestamp = now - index * 3600
IsPlaceholder(ms) ==
  /\ Len(ms) = 50
  /\ \A index \in 0..49 :
       /\ ms[index + 1].value = index * 10
       /\ ms[index + 1].timestamp = Now - index * 3600

\* no request carries metrics: a body holds a scenario name, or the pipeline
\* of the controls
NoMetricsInRequests ==
  \A i \in 1..Len(pending) :
    Has(pending[i].request, "body") =>
      \/ DOMAIN pending[i].request.body = {"scenario"}
      \/ /\ DOMAIN pending[i].request.body = {"pipeline"}
         /\ pending[i].request.body.pipeline = pipeline

RequiredFields(operation) ==
  CASE operation = "filter" -> {"type", "value"}
    [] operation \in {"greater_than", "less_than", "equal_to"} -> {"value"}
    [] operation = "aggregate" -> {"type"}
    [] operation = "group_by" -> {"time_grouping", "aggregation"}
    [] OTHER -> {}

Carries(op, field) == Has(op, field) /\ (field # "value" => op[field] # "")

Complete(op) == \A field \in RequiredFields(op.operation) : Carries(op, field)

\* C15: after any sequence of add, remove and clear actions every operation
\* of the pipeline carries the fields its kind requires, and an add attempt
\* with a missing required field shows a warning and leaves the pipeline
\* unchanged.
C15_PipelineComplete ==
  /\ [](\A k \in 1..Len(pipeline) : Complete(pipeline[k]))
  /\ [][addOperation /\ ~Complete(currentOperation)
          => alertMessage' # Null /\ pipeline' = pipeline]_vars

PassesLabelOperation(rec, op) ==
  IF op.operation = "filter_by_label" THEN rec.label = op.label
                                      ELSE rec.label \in op.labels

\* the records of the labeled store that pass every label operation, in
\* store order, as {value, timestamp}
LabelFiltered(label_operations) ==
  LET passing == SelectSeq(labeled_metrics,
                           LAMBDA rec : \A k \in 1..Len(label_operations) :
                                          PassesLabelOperation(rec, label_operations[k]))
  IN [i \in 1..Len(passing) |->
        [value |-> Num(passing[i].value), timestamp |-> passing[i].timestamp]]

MaxDeploys == 2

\* exit statuses of docker, helm and cd: success, failure, docker daemon error
ExitCodes == {0, 1, 125}

Scripts == {"deploy.ps1", "deploy.sh"}

Cmd(command, component) == [command |-> command, component |-> component]
Exited == Cmd("exited", "none")

\* the command about to run is run and ends with this exit status
Log(code) ==
  ran' = Append(ran, [command |-> nextCommand.command,
                      component |-> nextCommand.component, code |-> code])

\* exit <code>
Exits(code) == nextCommand' = Exited /\ exitCode' = <<code>>

Continues(next) == nextCommand' = next /\ UNCHANGED exitCode

\* .\deploy.ps1 [registry] [tag] [skipPush], ./deploy.sh [registry] [tag]
Invoke(name, skip) ==
  /\ nextCommand.command \in {"idle", "exited"}
  /\ deployRuns < MaxDeploys
  /\ deployRuns' = deployRuns + 1
  /\ script' = name
  /\ skipPush' = (name = "deploy.ps1" /\ skip)
  /\ ran' = <<>>
  /\ releaseExists' = FALSE
  /\ exitCode' = <<>>
  /\ nextCommand' = IF name = "deploy.ps1" THEN Cmd("docker build", "api")
                                           ELSE Cmd("cd", "api")
  /\ UNCHANGED release

\* main of deploy.ps1: Build-ApiImage, Build-UiImage, Deploy-HelmChart
PsAfterImage(component) ==
  IF component = "api" THEN Cmd("docker build", "ui") ELSE Cmd("helm list", "chart")

\* A mutant of PsDockerBuild: $skipPush is not looked at.
PsDockerBuildAlwaysPush ==
  /\ script = "deploy.ps1" /\ nextCommand.command = "docker build"
  /\ \E code \in ExitCodes :
       /\ Log(code)
       /\ IF code # 0 THEN Exits(1)
          ELSE Continues(Cmd("docker push", nextCommand.component))
  /\ UNCHANGED <<script, skipPush, releaseExists, release, deployRuns>>

\* docker build, then if ($LASTEXITCODE -ne 0) { throw }, caught by exit 1
PsDockerBuild ==
  /\ script = "deploy.ps1" /\ nextCommand.command = "docker build"
  /\ \E code \in ExitCodes :
       /\ Log(code)
       /\ IF code # 0 THEN Exits(1)
          ELSE Continues(IF skipPush THEN PsAfterImage(nextCommand.component)
                                     ELSE Cmd("docker push", nextCommand.component))
  /\ UNCHANGED <<script, skipPush, releaseExists, release, deployRuns>>

\* A mutant of PsDockerPush: the exit status of docker push is not looked at.
PsDockerPushUnchecked ==
  /\ script = "deploy.ps1" /\ nextCommand.command = "docker push"
  /\ \E code \in ExitCodes :
       /\ Log(code)
       /\ Continues(PsAfterImage(nextCommand.component))
  /\ UNCHANGED <<script, skipPush, releaseExists, release, deployRuns>>

\* docker push, then if ($LASTEXITCODE -ne 0) { throw }, caught by exit 1
PsDockerPush ==
  /\ script = "deploy.ps1" /\ nextCommand.command = "docker push"
  /\ \E code \in ExitCodes :
       /\ Log(code)
       /\ IF code # 0 THEN Exits(1)
          ELSE Continues(PsAfterImage(nextCommand.component))
  /\ UNCHANGED <<script, skipPush, releaseExists, release, deployRuns>>

\* $releaseExists = helm list -q | Select-String ...: the exit status of helm
\* list is not looked at; a failed helm list prints no release
HelmList ==
  /\ nextCommand.command = "helm list"
  /\ \E code \in ExitCodes :
       /\ Log(code)
       /\ releaseExists' = (code = 0 /\ release)
       /\ Continues(IF releaseExists' THEN Cmd("helm upgrade", "chart")
                                      ELSE Cmd("helm install", "chart"))
  /\ UNCHANGED <<script, skipPush, release, deployRuns>>

PsHelmList == script = "deploy.ps1" /\ HelmList

\* helm upgrade succeeds only on a release that exists, helm install only on
\* a name that is not in use
HelmCodes(command) ==
  IF (command = "helm upgrade") = release THEN ExitCodes ELSE ExitCodes \ {0}

\* helm upgrade / helm install, then if ($LASTEXITCODE -ne 0) { throw },
\* caught by exit 1
PsHelmDeploy ==
  /\ script = "deploy.ps1" /\ nextCommand.command \in {"helm upgrade", "helm install"}
  /\ \E code \in HelmCodes(nextCommand.command) :
       /\ Log(code)
       /\ IF code # 0 THEN Exits(1) /\ UNCHANGED release
          ELSE Continues(Cmd("helm status", "chart")) /\ release' = TRUE
  /\ UNCHANGED <<script, skipPush, releaseExists, deployRuns>>

\* helm status: its exit status is not looked at; the script ends
PsHelmStatus ==
  /\ script = "deploy.ps1" /\ nextCommand.command = "helm status"
  /\ \E code \in ExitCodes : Log(code) /\ Exits(0)
  /\ UNCHANGED <<script, skipPush, releaseExists, release, deployRuns>>

\* deploy.sh, the part after build_api: build_ui, then the chart
ShAfterImage(component) ==
  IF component = "api" THEN Cmd("cd", "ui") ELSE Cmd("helm list", "chart")

\* build_api: cd api; docker build; docker push; cd ..
ShNext(command, component) ==
  CASE command = "cd" -> Cmd("docker build", component)
    [] command = "docker build" -> Cmd("docker push", component)
    [] command = "docker push" -> Cmd("cd ..", component)
    [] command = "cd .." -> ShAfterImage(component)

\* set -e: a command that exits with a non-zero status ends the script with
\* that status
ShRun(next) ==
  \E code \in ExitCodes :
    /\ Log(code)
    /\ IF code # 0 THEN Exits(code) ELSE Continues(next)

ShBuild(component) ==
  /\ script = "deploy.sh"
  /\ nextCommand.component = component
  /\ nextCommand.command \in {"cd", "docker build", "docker push", "cd .."}
  /\ ShRun(ShNext(nextCommand.command, component))
  /\ UNCHANGED <<script, skipPush, releaseExists, release, deployRuns>>

build_api == ShBuild("api")
build_ui == ShBuild("ui")

ShHelmList == script = "deploy.sh" /\ HelmList

ShHelmDeploy ==
  /\ script = "deploy.sh" /\ nextCommand.command \in {"helm upgrade", "helm install"}
  /\ \E code \in HelmCodes(nextCommand.command) :
       /\ Log(code)
       /\ IF code # 0 THEN Exits(code) /\ UNCHANGED release
          ELSE Continues(Cmd("helm status", "chart")) /\ release' = TRUE
  /\ UNCHANGED <<script, skipPush, releaseExists, deployRuns>>

ShHelmStatus ==
  /\ script = "deploy.sh" /\ nextCommand.command = "helm status"
  /\ \E code \in ExitCodes : Log(code) /\ Exits(code)
  /\ UNCHANGED <<script, skipPush, releaseExists, release, deployRuns>>

NotDeploy == UNCHANGED <<engineVars, serverVars, perfVars, playVars, homeVars, chartVars, composeVars, routeVars>>

InitDeploy ==
  /\ collection = <<>>
  /\ EngineIdle /\ ServerInit /\ PerfInit /\ PlayInit /\ HomeInit

NextDeploy ==
  \/ \E name \in Scripts, skip \in BOOLEAN : Invoke(name, skip) /\ NotDeploy
  \/ PsDockerBuild /\ NotDeploy
  \/ PsDockerPush /\ NotDeploy
  \/ PsHelmList /\ NotDeploy
  \/ PsHelmDeploy /\ NotDeploy
  \/ PsHelmStatus /\ NotDeploy
  \/ build_api /\ NotDeploy
  \/ build_ui /\ NotDeploy
  \/ ShHelmList /\ NotDeploy
  \/ ShHelmDeploy /\ NotDeploy
  \/ ShHelmStatus /\ NotDeploy

SpecDeploy == InitDeploy /\ [][NextDeploy]_vars

\* ------------------------------------------------------------------------
\* Compose topology: the api and ui services, their start order and their
\* health checks
\* ------------------------------------------------------------------------

\* healthcheck.retries
Retries == 3

MaxRestarts == 1

\* depends_on in its short form: the services that must have been started
\* before this one is
depends_on(svc) == IF svc = "ui" THEN {"api"} ELSE {}

\* the container of a service is created and started once the containers it
\* depends on have been started; its health status starts as "starting"
StartContainer(svc) ==
  /\ health[svc] = "absent"
  /\ \A dep \in depends_on(svc) : health[dep] # "absent"
  /\ health' = [health EXCEPT ![svc] = "starting"]
  /\ streak' = [streak EXCEPT ![svc] = 0]
  /\ inStartPeriod' = [inStartPeriod EXCEPT ![svc] = TRUE]
  /\ UNCHANGED restartCount

\* start_period: 15s have passed since the container started
StartPeriodEnds(svc) ==
  /\ health[svc] # "absent"
  /\ inStartPeriod[svc]
  /\ inStartPeriod' = [inStartPeriod EXCEPT ![svc] = FALSE]
  /\ UNCHANGED <<health, streak, restartCount>>

\* healthcheck: curl -f http://localhost:<port>/ every interval; a success
\* makes the container healthy, a failure outside the start period counts
\* towards the retries that make it unhealthy
HealthCheck(svc, ok) ==
  /\ health[svc] # "absent"
  /\ IF ok
       THEN /\ health' = [health EXCEPT ![svc] = "healthy"]
            /\ streak' = [streak EXCEPT ![svc] = 0]
            /\ inStartPeriod' = [inStartPeriod EXCEPT ![svc] = FALSE]
       ELSE IF inStartPeriod[svc] /\ health[svc] = "starting"
         THEN UNCHANGED <<health, streak, inStartPeriod>>
         ELSE /\ streak' = [streak EXCEPT ![svc] = IF @ < Retries THEN @ + 1 ELSE @]
              /\ health' = [health EXCEPT ![svc] =
                              IF streak'[svc] >= Retries THEN "unhealthy" ELSE @]
              /\ UNCHANGED inStartPeriod
  /\ UNCHANGED restartCount

\* restart: unless-stopped: a container that exits is started again
Restart(svc) ==
  /\ health[svc] # "absent"
  /\ restartCount[svc] < MaxRestarts
  /\ restartCount' = [restartCount EXCEPT ![svc] = @ + 1]
  /\ health' = [health EXCEPT ![svc] = "starting"]
  /\ streak' = [streak EXCEPT ![svc] = 0]
  /\ inStartPeriod' = [inStartPeriod EXCEPT ![svc] = TRUE]

NotCompose ==
  UNCHANGED <<engineVars, serverVars, perfVars, playVars, homeVars, chartVars, deployVars,
              routeVars>>

InitCompose ==
  /\ collection = <<>>
  /\ EngineIdle /\ ServerInit /\ PerfInit /\ PlayInit /\ HomeInit

NextCompose ==
  \/ \E svc \in Services : StartContainer(svc) /\ NotCompose
  \/ \E svc \in Services : StartPeriodEnds(svc) /\ NotCompose
  \/ \E svc \in Services, ok \in BOOLEAN : HealthCheck(svc, ok) /\ NotCompose
  \/ \E svc \in Services : Restart(svc) /\ NotCompose

SpecCompose == InitCompose /\ [][NextCompose]_vars

\* ------------------------------------------------------------------------
\* Dashboard routing: next.config.ts rewrites, the dashboard's image
\* ------------------------------------------------------------------------

\* an unset environment variable reads as undefined
Undefined == "undefined"

LocalAddress == "http://localhost:5000"
ClusterAddress == "http://api:5000"
ProductionAddress == "https://api-metrics-demandbase.rileyseaburg.com"

\* rewrites(): /api/:path* to the destination chosen from process.env
rewrites(env) ==
  [source |-> "api",
   destination |-> IF env.DOCKER_ENV = "true" THEN ClusterAddress
                   ELSE IF env.NODE_ENV = "production" THEN ProductionAddress
                   ELSE LocalAddress]

\* process.env of a shell the dashboard is built or started from
ShellEnvs == [DOCKER_ENV : {Undefined, "true", "false"}]

\* next build and next start run with NODE_ENV production, next dev with
\* development
WithNodeEnv(env, value) == [NODE_ENV |-> value, DOCKER_ENV |-> env.DOCKER_ENV]

\* the builder stage of the image sets no environment variable; the runner
\* stage sets NODE_ENV and DOCKER_ENV
BuilderEnv == [DOCKER_ENV |-> Undefined]
RunnerEnv == [NODE_ENV |-> "production", DOCKER_ENV |-> "true"]

\* next dev: the server evaluates rewrites() itself when it starts
NextDev(env) ==
  /\ server' = [mode |-> "dev", env |-> WithNodeEnv(env, "development"),
                rewrites |-> rewrites(WithNodeEnv(env, "development"))]
  /\ rewritten' = <<>>
  /\ UNCHANGED routesManifest

\* next build: rewrites() is evaluated and written to the routes manifest of
\* the build output (.next)
NextBuild(env) ==
  /\ routesManifest' = <<[rewrites |-> rewrites(WithNodeEnv(env, "production")),
                          env |-> WithNodeEnv(env, "production")]>>
  /\ UNCHANGED <<server, rewritten>>

\* next start from the shell that built: the server serves the rewrites of
\* the routes manifest
NextStart ==
  /\ routesManifest # <<>>
  /\ server' = [mode |-> "start", env |-> routesManifest[1].env,
                rewrites |-> routesManifest[1].rewrites]
  /\ rewritten' = <<>>
  /\ UNCHANGED routesManifest

\* docker build of the dashboard image: RUN npm run build in the builder stage
DockerBuildUi == NextBuild(BuilderEnv)

\* docker run of the image: .next is copied from the builder stage, next.config.ts
\* is not, and npm start runs with the runner stage's environment
DockerRunUi ==
  /\ routesManifest # <<>>
  /\ routesManifest[1].env = WithNodeEnv(BuilderEnv, "production")
  /\ server' = [mode |-> "start", env |-> RunnerEnv,
                rewrites |-> routesManifest[1].rewrites]
  /\ rewritten' = <<>>
  /\ UNCHANGED routesManifest

\* request URLs, as path segments
RequestUrls ==
  {<<"api">>, <<"api", "metrics">>, <<"api", "metrics", "pipeline">>, <<"playground">>}

\* a request to the dashboard server: a URL under the rewrite's source is
\* proxied to the destination with :path* replaced by the rest of the URL
Request(url) ==
  /\ server # NoServer
  /\ rewritten' =
       IF Head(url) = server.rewrites.source
         THEN <<[url |-> url, base |-> server.rewrites.destination, path |-> Tail(url)]>>
         ELSE <<[url |-> url, base |-> "none", path |-> url]>>
  /\ UNCHANGED <<routesManifest, server>>

NotRoute ==
  UNCHANGED <<engineVars, serverVars, perfVars, playVars, homeVars, chartVars, deployVars,
              composeVars>>

InitRoute ==
  /\ collection = <<>>
  /\ EngineIdle /\ ServerInit /\ PerfInit /\ PlayInit /\ HomeInit

NextRoute ==
  \/ \E env \in ShellEnvs : NextDev(env) /\ NotRoute
  \/ \E env \in ShellEnvs : NextBuild(env) /\ NotRoute
  \/ NextStart /\ NotRoute
  \/ DockerBuildUi /\ NotRoute
  \/ DockerRunUi /\ NotRoute
  \/ \E url \in RequestUrls : Request(url) /\ NotRoute

SpecRoute == InitRoute /\ [][NextRoute]_vars

WholeCollectionAggregations == {"aggregate", "sum", "average"}

\* the pipeline without the whole-collection aggregations that another
\* whole-collection aggregation follows
LastAggregationOnly(ops) ==
  LET keep == {k \in 1..Len(ops) :
                 ops[k].operation \in WholeCollectionAggregations
                   => \A j \in (k + 1)..Len(ops) :
                        ops[j].operation \notin WholeCollectionAggregations}
      Index(n) == CHOOSE k \in keep : Cardinality({j \in keep : j < k}) = n - 1
  IN [n \in 1..Cardinality(keep) |-> ops[Index(n)]]

\* C17: the answer of a pipeline with several whole-collection aggregations
\* is the answer of the same pipeline with all but the last of them removed;
\* for [sum, average] it is the average of the stored values.
C17_LastAggregationEffective ==
  Answered("POST", "/metrics/pipeline") =>
    /\ lastResp = Respond(ExecPipeline(ToEngine(metrics),
                                       LastAggregationOnly(lastReq.pipeline)))
    /\ (/\ metrics # <<>>
        /\ lastReq.pipeline = <<[operation |-> "sum"], [operation |-> "average"]>>)
         => /\ lastResp.status = 200
            /\ Len(lastResp.body) = 1
            /\ lastResp.body[1].value = Aggregate(ValuesOf(ToEngine(metrics)), "avg").data


\* every ordering of the records of a collection
Reorderings(coll) ==
  {[i \in 1..Len(coll) |-> coll[p[i]]] : p \in Permutations(1..Len(coll))}

\* C18: the answer of a non-empty pipeline or sequence of transformation
\* steps over the plain store is the answer over every reordering of the
\* store.
C18_OrderIndependent ==
  /\ Answered("POST", "/metrics/pipeline") /\ lastReq.pipeline # <<>> =>
       \A coll \in Reorderings(ToEngine(metrics)) :
         lastResp = Respond(ExecPipeline(coll, lastReq.pipeline))
  /\ Answered("POST", "/metrics/transform") /\ lastReq.transformations # <<>> =>
       \A coll \in Reorderings(ToEngine(metrics)) :
         lastResp = Respond(ExecSteps(coll, lastReq.transformations, FALSE))

\* the stored records whose value exceeds every given threshold
Survivors(thresholds) ==
  {i \in 1..Len(metrics) : \A v \in thresholds : metrics[i].value > v}

\* a whole-collection aggregation is reached, through greater_than filters
\* only, with no record left
PipelineAggregatesNothing(ops) ==
  \E k \in 1..Len(ops) :
    /\ ops[k].operation \in WholeCollectionAggregations
    /\ \A j \in 1..(k - 1) : ops[j].operation = "greater_than"
    /\ Survivors({ops[j].value : j \in 1..(k - 1)}) = {}

CollapsingStep(step) == Has(step, "aggregation") /\ ~Has(step, "time_grouping")

\* the same for Pipeline Steps: filter-only steps, then a step with an
\* aggregation and no time grouping, whose own filter applies first
StepsAggregateNothing(steps) ==
  \E k \in 1..Len(steps) :
    /\ CollapsingStep(steps[k])
    /\ \A j \in 1..(k - 1) : DOMAIN steps[j] = {"filter"}
    /\ \A j \in 1..k : Has(steps[j], "filter") => steps[j].filter.type = "gt"
    /\ Survivors({steps[j].filter.value : j \in {i \in 1..k : Has(steps[i], "filter")}}) = {}

\* C19: a pipeline or transformation in which a whole-collection aggregation
\* is reached with no record left (an empty store, or filters that no record
\* passes) is answered with a 400 carrying only an error: no record, and no
\* zero, is returned.
C19_EmptyAggregationFails ==
  /\ Answered("POST", "/metrics/pipeline") /\ PipelineAggregatesNothing(lastReq.pipeline)
       => ErrorOnly(lastResp)
  /\ Answered("POST", "/metrics/transform") /\ StepsAggregateNothing(lastReq.transformations)
       => ErrorOnly(lastResp)

C19_Witness ==
  /\ Answered("POST", "/metrics/pipeline")
  /\ metrics = <<[value |-> 1, timestamp |-> 10]>>
  /\ lastReq.pipeline = <<[operation |-> "greater_than", value |-> 1], [operation |-> "sum"]>>
  /\ lastResp = BadRequest("Cannot aggregate an empty collection")

\* the steps of a release run: image builds, image pushes, the chart's
\* install or upgrade
StepCommands == {"docker build", "docker push", "helm upgrade", "helm install"}

StepFailed(k) == ran[k].command \in StepCommands /\ ran[k].code # 0

Succeeded(command, component) ==
  \E k \in 1..Len(ran) :
    ran[k] = [command |-> command, component |-> component, code |-> 0]

\* C20: in a run of either release script a failed image build, image push,
\* helm install or helm upgrade is the last command of the run and the
\* script has exited with a non-zero status; the script exits 0 only when
\* both images were built, both were pushed (unless skipPush), the chart was
\* installed or upgraded, and none of these steps failed.
C20_AbortsOnFirstFailure ==
  /\ \A k \in 1..Len(ran) :
       StepFailed(k) => /\ k = Len(ran)
                        /\ nextCommand = Exited
                        /\ exitCode # <<>> /\ exitCode # <<0>>
  /\ exitCode = <<0>> =>
       /\ \A k \in 1..Len(ran) : ~StepFailed(k)
       /\ \A component \in {"api", "ui"} :
            /\ Succeeded("docker build", component)
            /\ ~skipPush => Succeeded("docker push", component)
       /\ Succeeded("helm install", "chart") \/ Succeeded("helm upgrade", "chart")

C20_Witness ==
  /\ script = "deploy.ps1"
  /\ ~skipPush
  /\ ran = <<[command |-> "docker build", component |-> "api", code |-> 0],
             [command |-> "docker push", component |-> "api", code |-> 125]>>
  /\ nextCommand = Exited
  /\ exitCode = <<1>>

Ran(command) == \E k \in 1..Len(ran) : ran[k].command = command

\* C21: a release run is about to run, or has run, helm install only with
\* the release absent before it and helm upgrade only with the release
\* present, never both in one run; after a run that exited 0 the release
\* exists.
C21_InstallOrUpgrade ==
  /\ nextCommand.command = "helm install" => ~release
  /\ nextCommand.command = "helm upgrade" => release
  /\ ~(Ran("helm install") /\ Ran("helm upgrade"))
  /\ exitCode = <<0>> => release

\* C22: the dashboard container is started only while the API container is
\* healthy: there is no step that starts it with the API absent, starting or
\* unhealthy.
C22_DashboardAfterHealthyApi ==
  [][health["ui"] = "absent" /\ health'["ui"] # "absent" => health["api"] = "healthy"]_vars

\* C23: a request under /api/ is rewritten to the in-cluster address when
\* the server's DOCKER_ENV is 'true', otherwise to the production address
\* when its NODE_ENV is 'production', otherwise to the local address, and
\* the path after /api/ is kept.
C23_RewriteByContext ==
  (rewritten # <<>> /\ Head(rewritten[1].url) = "api") =>
    /\ rewritten[1].base =
         IF server.env.DOCKER_ENV = "true" THEN "http://api:5000"
         ELSE IF server.env.NODE_ENV = "production"
           THEN "https://api-metrics-demandbase.rileyseaburg.com"
           ELSE "http://localhost:5000"
    /\ <<"api">> \o rewritten[1].path = rewritten[1].url

\* the command that follows the k-th command of the run, run already or
\* about to run
Following(k) ==
  IF k < Len(ran) THEN Cmd(ran[k + 1].command, ran[k + 1].component) ELSE nextCommand

Built(k, component) ==
  ran[k] = [command |-> "docker build", component |-> component, code |-> 0]

\* C24: with skipPush a run performs no docker push, the ui build follows the
\* api build and the chart's release check follows the ui build; without it
\* every successful docker build is followed at once by the docker push of
\* the same image.
C24_SkipPush ==
  \A k \in 1..Len(ran) :
    /\ skipPush => /\ ran[k].command # "docker push"
                   /\ Built(k, "api") => Following(k) = Cmd("docker build", "ui")
                   /\ Built(k, "ui") => Following(k) = Cmd("helm list", "chart")
    /\ ~skipPush => \A component \in {"api", "ui"} :
                      Built(k, component) => Following(k) = Cmd("docker push", component)

C24_Witness ==
  /\ script = "deploy.ps1"
  /\ skipPush
  /\ Len(ran) = 5
  /\ Built(1, "api") /\ Built(2, "ui")
  /\ ran[4] = [command |-> "helm install", component |-> "chart", code |-> 0]
  /\ exitCode = <<0>>

\* C25: a non-empty original dataset delivered by the initial load is never
\* replaced: every step from a state whose original dataset is non-empty and
\* not the placeholder leaves the original dataset as it is.
C25_LoadedDatasetKept ==
  [][(originalMetrics # <<>> /\ ~IsPlaceholder(originalMetrics))
       => originalMetrics' = originalMetrics]_vars

\* the k-th (operation, size) pair in execution order: operations outside,
\* sizes inside
PairInOrder(k) ==
  [operation |-> <<"filter", "aggregate", "timeGroup", "complex">>[((k - 1) \div 5) + 1],
   dataSize |-> <<100, 500, 1000, 5000, 10000>>[((k - 1) % 5) + 1]]

AllOrNothing(published) ==
  \/ published = <<>>
  \/ /\ Len(published) = 20
     /\ \A k \in 1..20 : Pair(published[k]) = PairInOrder(k)

\* C26: the published benchmark results are always empty or the 20 entries
\* of one run in execution order; they are empty right after a run starts and
\* right after a run fails.
C26_AllOrNothing ==
  /\ [](AllOrNothing(benchmarkResults))
  /\ [][(ClickRunBenchmarks \/ BenchmarkRejected) => benchmarkResults' = <<>>]_vars

C26_Witness ==
  /\ runs = 2
  /\ ~isRunning
  /\ Len(benchmarkResults) = 20
  /\ perfError = Null

\* the request of a pipeline transform or of a canned scenario fails
ActionFails == \E i \in 1..Len(pending) : ApplyRejected(i) \/ TestRejected(i)

\* a pipeline transform or canned scenario is started
ActionStarts == mounted /\ Len(pending') > Len(pending)

\* C27: the steps of a failed Playground action, its start and its failure,
\* leave the transformed dataset, the original dataset and the execution time
\* as they were; the failure clears the loading flag.
C27_FailureKeepsResults ==
  [][(ActionStarts \/ ActionFails)
       => /\ UNCHANGED <<transformedMetrics, originalMetrics, executionTime>>
          /\ ActionFails => ~isLoading']_vars

C27_Witness ==
  /\ error \in {TestFailed(message) : message \in ErrMessages}
  /\ ~isLoading
  /\ pending = <<>>
  /\ transformedMetrics # <<>>
  /\ executionTime # <<>>
  /\ originalMetrics # <<>>

\* C28: for every record of the transformed series the chart data holds a
\* point with the record's timestamp whose transformed value is the
\* record's value.
C28_NoTransformedDropped ==
  chartData # <<>> =>
    \A i \in 1..Len(transformedMetrics) :
      \E k \in 1..Len(chartData[1]) :
        /\ chartData[1][k].timestamp = transformedMetrics[i].timestamp
        /\ Has(chartData[1][k], "transformedValue")
        /\ chartData[1][k].transformedValue = transformedMetrics[i].value


\* the pipelines handed to onApplyTransformations and still in flight
Submitted ==
  [k \in 1..Len(SelectSeq(pending, LAMBDA r : r.action = "apply")) |->
     SelectSeq(pending, LAMBDA r : r.action = "apply")[k].request.body.pipeline]

\* C29: an accepted add appends the draft to the pipeline; removing index i
\* deletes the i-th operation only and keeps the others in their order;
\* applying leaves the pipeline as it was and hands exactly that pipeline to
\* the submit callback, and applying an empty pipeline hands over nothing.
C29_SubmittedIsBuilt ==
  [][/\ (addOperation /\ pipeline' # pipeline)
          => pipeline' = pipeline \o <<currentOperation>>
     /\ \A index \in 1..Len(pipeline) :
          removeOperation(index)
            => /\ Len(pipeline') = Len(pipeline) - 1
               /\ \A k \in 1..Len(pipeline') :
                    pipeline'[k] = IF k < index THEN pipeline[k] ELSE pipeline[k + 1]
     /\ applyTransformations
          => /\ pipeline' = pipeline
             /\ Submitted' = IF pipeline = <<>> THEN Submitted
                                                ELSE Submitted \o <<pipeline>>]_vars

C29_Witness ==
  /\ Submitted = <<<<[operation |-> "aggregate", type |-> "sum"],
                     [operation |-> "group_by_hour"]>>>>
  /\ pipeline = <<[operation |-> "group_by_hour"]>>
  /\ alertMessage = Null


\* C30: changing the operation kind and an accepted add leave the draft with
\* its kind only, and no 'filter' operation of the pipeline has a value that
\* is not a number.
C30_DraftResetAndNumericValue ==
  /\ [][/\ \A operation \in OperationOptions :
             handleOperationChange(operation)
               => currentOperation' = [operation |-> operation]
        /\ (addOperation /\ pipeline' # pipeline)
             => currentOperation' = [operation |-> "filter"]]_vars
  /\ [](\A k \in 1..Len(pipeline) :
          pipeline[k].operation = "filter"
            => Has(pipeline[k], "value") /\ pipeline[k].value # NaN)

====
